---- MODULE Spec2Model ----
(***************************************************************************)
(* Island survival simulator: the tick engine, the action resolvers and    *)
(* the event log with per-event world snapshots (src/server/simulation.ts, *)
(* src/server/toolSchemas.ts, src/server/agent.ts).                        *)
(*                                                                         *)
(* Conventions.                                                            *)
(*  - Identifiers are pairs <<prefix, n>>.  generateEventId builds         *)
(*    prefix + "_" + base36(random()); the model identifies the base-36    *)
(*    text of a draw with the position n of that draw in the seeded        *)
(*    stream (the seed field only ever grows), i.e. it takes the outputs   *)
(*    of the generator as pairwise distinct over the bounded horizon.      *)
(*  - The value of every other draw (shuffle index, death chance, gender,  *)
(*    direction, weather) is an input: operators that draw are set-valued  *)
(*    and return one result per possible value.                            *)
(*  - An optional field is a sequence of length 0 or 1.  An agent's        *)
(*    pregnancy distinguishes a missing key from a key holding undefined,  *)
(*    because JSON.stringify drops the latter.                             *)
(*  - An operator named after a method of Simulation takes and returns the *)
(*    record s = [world, eventLog, worldSnapshots, seed] of the fields the *)
(*    method reads and writes.                                             *)
(***************************************************************************)
EXTENDS Integers, Sequences, FiniteSets, TLC

VARIABLES
    world,           \* Simulation.world
    eventLog,        \* Simulation.eventLog
    worldSnapshots,  \* Simulation.worldSnapshots
    seed,            \* number of draws taken from Simulation.random
    llmClient,       \* TRUE iff config.llm was given (Simulation.llmClient set)
    ticks,           \* the tick() invocations that have started and not returned
    logged,          \* history: id -> this.world at the moment logEvent stored it
    twin,            \* a record kept beside the run: the second Simulation of a comparison,
                     \* the argument of tickAgent, or the meals eaten since the day began; else <<>>
    attempts,        \* agent id -> getToolCalls queries of its turn, where the retry loop is followed
    observer,        \* the agent handed to observeTiles, where spatial memory is followed, else <<>>
    api              \* the routes: the persisted files and the simulation they keep, else <<>>

vars == <<world, eventLog, worldSnapshots, seed, llmClient, ticks, logged, twin, attempts, observer, api>>

----------------------------------------------------------------------------
(* Bounds of the model *)

MaxSeed == 5         \* no new tick or GOD message once this many draws are taken
MaxInFlight == 2     \* tick() invocations that may be in progress together
MaxSeedLLM == 4      \* no new tick with a decision service once this many draws are taken

----------------------------------------------------------------------------
(* Generic helpers *)

NoId == <<"", 0>>

Min(a, b) == IF a < b THEN a ELSE b
Max(a, b) == IF a > b THEN a ELSE b
Abs(n) == IF n < 0 THEN -n ELSE n

Last(seq) == seq[Len(seq)]

RECURSIVE SelectIndex(_, _, _)
\* Array.prototype.findIndex from position i (1-based); 0 when nothing matches
SelectIndex(seq, i, id) ==
    IF i > Len(seq) THEN 0
    ELSE IF seq[i].id = id THEN i
    ELSE SelectIndex(seq, i + 1, id)

Range(seq) == {seq[i] : i \in 1..Len(seq)}

----------------------------------------------------------------------------
(* types.ts *)

Resources == {"wood", "stone", "water", "food", "tools"}

ZeroInventory == [wood |-> 0, stone |-> 0, water |-> 0, food |-> 0, tools |-> 0]

NoPregnancy == [state |-> "absent", startTick |-> 0, duration |-> 0, partnerId |-> NoId]

UndefinedPregnancy == [NoPregnancy EXCEPT !.state = "undefined"]

\* SimulationConfig as the scenarios of this model configure it
config ==
    [mapSize |-> 2, childDuration |-> 2, pregnancyDuration |-> 1,
     cropGrowthTime |-> 1, cropWateringRequired |-> 1, agentMovePerTick |-> 1,
     mealsPerDay |-> 1, visibilityRadius |-> 1]

Coords == (0..(config.mapSize - 1)) \X (0..(config.mapSize - 1))

Loc(x, y) == [x |-> x, y |-> y]

\* world.map[loc.y]?.[loc.x]: the tile as an optional value
TileAt(w, loc) ==
    IF <<loc.x, loc.y>> \in DOMAIN w.map THEN <<w.map[<<loc.x, loc.y>>]>> ELSE <<>>

\* world.agents.find(a => a.id === id) as an optional value
RECURSIVE FindAgent(_, _)
FindAgent(agents, id) ==
    IF agents = <<>> THEN <<>>
    ELSE IF Head(agents).id = id THEN <<Head(agents)>>
    ELSE FindAgent(Tail(agents), id)

AgentIds(w) == {w.agents[i].id : i \in 1..Len(w.agents)}

----------------------------------------------------------------------------
(* JSON.parse(JSON.stringify(world)) and deep equality *)

\* JSON.stringify omits a property whose value is undefined
JsonAgent(a) ==
    IF a.pregnancy.state = "undefined" THEN [a EXCEPT !.pregnancy = NoPregnancy] ELSE a

JsonCopy(w) == [w EXCEPT !.agents = [i \in 1..Len(w.agents) |-> JsonAgent(w.agents[i])]]

\* Deep equality in the sense of Jest's toEqual: a property holding undefined
\* and a missing property are not told apart
DeepEqual(w1, w2) == JsonCopy(w1) = JsonCopy(w2)

----------------------------------------------------------------------------
(* Simulation: event ids and the event log *)

SimState == [world |-> world, eventLog |-> eventLog,
             worldSnapshots |-> worldSnapshots, seed |-> seed, logged |-> logged]

\* one call of this.random.random(): the stream advances by one draw
Draw(s) == [s EXCEPT !.seed = @ + 1]

\* generateEventId(prefix) after the draw has been taken
EventId(s, prefix) == <<prefix, s.seed>>

NewEvent(id, type, tick, agentsInvolved, details) ==
    [id |-> id, type |-> type, tick |-> tick, agentsInvolved |-> agentsInvolved,
     details |-> details, parentEventId |-> NoId]

HasSnapshot(snaps, id) == id \in DOMAIN snaps

\* worldSnapshots[id] = copy (an assignment to a Record key)
Store(snaps, id, copy) ==
    [k \in (DOMAIN snaps) \cup {id} |-> IF k = id THEN copy ELSE snaps[k]]

\* logEvent without the parent assignment
LogEventUnlinked(s, event) ==
    [s EXCEPT !.eventLog = Append(@, event),
              !.worldSnapshots = Store(@, event.id, JsonCopy(s.world)),
              !.logged = Store(@, event.id, s.world)]

LogEvent(s, event) ==
    LET ev == IF event.parentEventId = NoId /\ Len(s.eventLog) > 0
              THEN [event EXCEPT !.parentEventId = Last(s.eventLog).id]
              ELSE event
    IN [s EXCEPT !.eventLog = Append(@, ev),
                 !.worldSnapshots = Store(@, ev.id, JsonCopy(s.world)),
                 !.logged = Store(@, ev.id, s.world)]

\* logEvent({id: generateEventId(prefix), type, tick: world.time, ...})
LogNew(s, prefix, type, agentsInvolved, details) ==
    LET d == Draw(s)
    IN LogEvent(d, NewEvent(EventId(d, prefix), type, d.world.time, agentsInvolved, details))

\* stepToEvent restoring the snapshot of the newest event of the log
StepToEventNewest(s, eventId) ==
    IF HasSnapshot(s.worldSnapshots, eventId) /\ s.eventLog # <<>>
    THEN [s EXCEPT !.world = JsonCopy(s.worldSnapshots[Last(s.eventLog).id])]
    ELSE s

StepToEvent(s, eventId) ==
    IF HasSnapshot(s.worldSnapshots, eventId)
    THEN [s EXCEPT !.world = JsonCopy(s.worldSnapshots[eventId])]
    ELSE s

JumpToEvent(s, eventId) == StepToEvent(s, eventId)

\* branchFromEvent with slice(0, idx): the branch point itself is cut off
BranchFromEventShort(s, eventId) ==
    IF ~HasSnapshot(s.worldSnapshots, eventId) THEN s
    ELSE LET idx == SelectIndex(s.eventLog, 1, eventId)
         IN [s EXCEPT !.world = JsonCopy(s.worldSnapshots[eventId]),
                      !.eventLog = IF idx >= 1 THEN SubSeq(@, 1, idx - 1) ELSE @]

BranchFromEvent(s, eventId) ==
    IF ~HasSnapshot(s.worldSnapshots, eventId) THEN s
    ELSE LET idx == SelectIndex(s.eventLog, 1, eventId)
         IN [s EXCEPT !.world = JsonCopy(s.worldSnapshots[eventId]),
                      !.eventLog = IF idx >= 1 THEN SubSeq(@, 1, idx) ELSE @]

----------------------------------------------------------------------------
(* Simulation.sendGodMessage *)

MemoryEntry(tick, eventId, description) ==
    [tick |-> tick, eventId |-> eventId, description |-> description]

RECURSIVE GodMemoriesAll(_, _, _)
\* the memory entries handed to every agent, recipient or not
GodMemoriesAll(s, i, recipients) ==
    IF i > Len(s.world.agents) THEN s
    ELSE LET d == Draw(s)
             entry == MemoryEntry(d.world.time, EventId(d, "godmsg"), <<"GOD", NoId>>)
         IN GodMemoriesAll([d EXCEPT !.world.agents[i].memory = Append(@, entry)],
                           i + 1, recipients)

RECURSIVE GodMemories(_, _, _)
\* for (const agent of recipients) agent.memory.push({..., eventId: generateEventId('godmsg')})
GodMemories(s, i, recipients) ==
    IF i > Len(s.world.agents) THEN s
    ELSE IF s.world.agents[i].id \in recipients
    THEN LET d == Draw(s)
             entry == MemoryEntry(d.world.time, EventId(d, "godmsg"), <<"GOD", NoId>>)
         IN GodMemories([d EXCEPT !.world.agents[i].memory = Append(@, entry)],
                        i + 1, recipients)
    ELSE GodMemories(s, i + 1, recipients)

RecipientIds(w, targetAgentIds) ==
    IF targetAgentIds # {}
    THEN {w.agents[i].id : i \in {j \in 1..Len(w.agents) :
                                    w.agents[j].id \in targetAgentIds /\ w.agents[j].alive}}
    ELSE {w.agents[i].id : i \in {j \in 1..Len(w.agents) : w.agents[j].alive}}

\* the recipients in world.agents order (Array.prototype.filter keeps the order)
RecipientSeq(w, recipients) ==
    SelectSeq([i \in 1..Len(w.agents) |-> w.agents[i].id], LAMBDA id : id \in recipients)

SendGodMessage(s, targetAgentIds) ==
    LET recipients == RecipientIds(s.world, targetAgentIds)
        m == GodMemories(s, 1, recipients)
    IN LogNew(m, "event", "god_message", RecipientSeq(s.world, recipients),
              [message |-> "msg"])

----------------------------------------------------------------------------
(* agent.ts *)

Undefined == "undefined"

\* the four-parameter updateRelationshipEvent: a missing argument is undefined
RelationshipDelta(eventType) ==
    IF eventType \in {"steal", "attack"} THEN -5
    ELSE IF eventType = "procreate" THEN 5
    ELSE IF eventType = "give" THEN 3
    ELSE IF eventType = "communicate" THEN 2
    ELSE 0

GenerateRelationshipNote(otherName, type, value) ==
    IF type = "trust"
    THEN IF value > 20 THEN <<otherName, "is very trustworthy">>
         ELSE IF value > 10 THEN <<otherName, "seems reliable">>
         ELSE IF value > 0 THEN <<otherName, "is somewhat trustworthy">>
         ELSE IF value < -10 THEN <<otherName, "cannot be trusted">>
         ELSE <<otherName, "neutral">>
    ELSE <<otherName, "relationship">>

RECURSIVE FindRelationship(_, _)
FindRelationship(rels, otherId) ==
    IF rels = <<>> THEN <<>>
    ELSE IF Head(rels).agentId = otherId THEN <<Head(rels)>>
    ELSE FindRelationship(Tail(rels), otherId)

UpdateRelationship(agent, rel) ==
    [agent EXCEPT !.relationships =
        Append(SelectSeq(@, LAMBDA r : r.agentId # rel.agentId), rel)]

UpdateRelationshipEvent(agent, otherId, otherName, eventType) ==
    LET prev == FindRelationship(agent.relationships, otherId)
        newValue == (IF prev = <<>> THEN 0 ELSE prev[1].value) + RelationshipDelta(eventType)
        relType == IF prev = <<>> THEN "trust" ELSE prev[1].type
    IN UpdateRelationship(agent,
           [agentId |-> otherId, type |-> relType, value |-> newValue,
            notes |-> GenerateRelationshipNote(otherName, relType, newValue)])

HappinessDelta(eventType) ==
    IF eventType = "death" THEN -20
    ELSE IF eventType = "starve" THEN -10
    ELSE IF eventType = "procreate" THEN 5
    ELSE IF eventType = "give" THEN 3
    ELSE IF eventType = "communicate" THEN 2
    ELSE 0

UpdateHappinessEvent(agent, eventType) ==
    [agent EXCEPT !.happiness = Max(0, Min(100, @ + HappinessDelta(eventType)))]

\* tickAgent without its draw: dies says whether random() < 0.01 came out true.
\* The draw is taken only when the agent is alive and its new status is elder.
AgedStatus(agent, childDuration, elderAge) ==
    LET newAge == agent.age + 1
        s1 == IF agent.status = "child" /\ newAge >= childDuration THEN "adult"
              ELSE agent.status
    IN IF s1 = "adult" /\ newAge >= elderAge THEN "elder" ELSE s1

TickAgentDraws(agent, childDuration, elderAge) ==
    agent.alive /\ AgedStatus(agent, childDuration, elderAge) = "elder"

\* tickAgent without its early return: the dead age as the living do
TickAgentAgesDead(agent, childDuration, elderAge, dies) ==
    LET status == AgedStatus(agent, childDuration, elderAge)
    IN [agent EXCEPT !.age = @ + 1,
                     !.status = status,
                     !.alive = @ /\ ~(status = "elder" /\ dies)]

TickAgent(agent, childDuration, elderAge, dies) ==
    IF ~agent.alive THEN agent
    ELSE LET status == AgedStatus(agent, childDuration, elderAge)
         IN [agent EXCEPT !.age = @ + 1,
                          !.status = status,
                          !.alive = ~(status = "elder" /\ dies)]

----------------------------------------------------------------------------
(* toolSchemas.ts: the action resolvers *)

RECIPES ==
    [wooden_tool    |-> [ingredients |-> [ZeroInventory EXCEPT !.wood = 2],
                         output |-> [ZeroInventory EXCEPT !.tools = 1]],
     stone_tool     |-> [ingredients |-> [ZeroInventory EXCEPT !.stone = 2, !.wood = 1],
                         output |-> [ZeroInventory EXCEPT !.tools = 1]],
     wooden_pickaxe |-> [ingredients |-> [ZeroInventory EXCEPT !.wood = 5, !.tools = 1],
                         output |-> [ZeroInventory EXCEPT !.tools = 2]],
     stone_pickaxe  |-> [ingredients |-> [ZeroInventory EXCEPT !.stone = 5, !.wood = 3, !.tools = 1],
                         output |-> [ZeroInventory EXCEPT !.tools = 3]]]

STRUCTURE_RECIPES ==
    [shelter   |-> [ZeroInventory EXCEPT !.wood = 10, !.stone = 5],
     fence     |-> [ZeroInventory EXCEPT !.wood = 3],
     workbench |-> [ZeroInventory EXCEPT !.wood = 5, !.stone = 2],
     storage   |-> [ZeroInventory EXCEPT !.wood = 8]]

\* agents.map(f): the same positions, each agent replaced by f(agent)
MapAgents(w, f(_)) == [w EXCEPT !.agents = [i \in 1..Len(w.agents) |-> f(w.agents[i])]]

\* every ingredient of the bundle is held: (inventory[r] || 0) >= amount
HasAll(inventory, bundle) == \A r \in Resources : inventory[r] >= bundle[r]

HandleGiveResource(w, call) ==
    LET from == FindAgent(w.agents, call.fromAgentId)
        to == FindAgent(w.agents, call.toAgentId)
    IN IF from = <<>> \/ to = <<>> THEN w
       ELSE IF from[1].inventory[call.resource] < call.amount THEN w
       ELSE LET taken == MapAgents(w, LAMBDA a :
                            IF a.id = call.fromAgentId
                            THEN [a EXCEPT !.inventory[call.resource] = @ - call.amount]
                            ELSE a)
                given == MapAgents(taken, LAMBDA a :
                            IF a.id = call.toAgentId
                            THEN [a EXCEPT !.inventory[call.resource] = @ + call.amount]
                            ELSE a)
            IN MapAgents(given, LAMBDA a :
                   IF a.id = call.fromAgentId
                   THEN UpdateHappinessEvent(
                            UpdateRelationshipEvent(a, call.toAgentId, "give", Undefined), "give")
                   ELSE IF a.id = call.toAgentId
                   THEN UpdateHappinessEvent(
                            UpdateRelationshipEvent(a, call.fromAgentId, "give", Undefined), "give")
                   ELSE a)

HandleCreateCropField(w, call, tick, cropGrowthTime) ==
    LET tile == TileAt(w, call.location)
    IN IF tile = <<>> THEN w
       ELSE IF tile[1].terrain # "grass" \/ tile[1].cropField # <<>> THEN w
       ELSE [w EXCEPT !.map[<<call.location.x, call.location.y>>].cropField =
                <<[id |-> <<"crop", call.location.x, call.location.y, tick>>,
                   location |-> call.location,
                   plantedTick |-> tick,
                   watered |-> 0,
                   matureTick |-> tick + cropGrowthTime,
                   harvested |-> FALSE]>>]

\* handleHarvestCrop without its watering condition
HandleHarvestCropDry(w, call, tick, cropWateringRequired) ==
    LET tile == TileAt(w, call.location)
    IN IF tile = <<>> THEN w
       ELSE IF tile[1].cropField = <<>> THEN w
       ELSE IF tile[1].cropField[1].harvested THEN w
       ELSE IF tick < tile[1].cropField[1].matureTick THEN w
       ELSE LET fed == MapAgents(w, LAMBDA a :
                          IF a.id = call.agentId
                          THEN [a EXCEPT !.inventory.food = @ + 2] ELSE a)
            IN [fed EXCEPT
                  !.map[<<call.location.x, call.location.y>>].cropField[1].harvested = TRUE]

HandleHarvestCrop(w, call, tick, cropWateringRequired) ==
    LET tile == TileAt(w, call.location)
    IN IF tile = <<>> THEN w
       ELSE IF tile[1].cropField = <<>> THEN w
       ELSE IF tile[1].cropField[1].harvested THEN w
       ELSE IF tick < tile[1].cropField[1].matureTick
               \/ tile[1].cropField[1].watered < cropWateringRequired THEN w
       ELSE LET fed == MapAgents(w, LAMBDA a :
                          IF a.id = call.agentId
                          THEN [a EXCEPT !.inventory.food = @ + 2] ELSE a)
            IN [fed EXCEPT
                  !.map[<<call.location.x, call.location.y>>].cropField[1].harvested = TRUE]

HandleMove(w, call) ==
    MapAgents(w, LAMBDA a : IF a.id = call.agentId THEN [a EXCEPT !.location = call.to] ELSE a)

\* the Chebyshev test handleCommunicate and the fallback use for visibility
InSquare(a, b, radius) ==
    Abs(a.location.x - b.location.x) <= radius /\ Abs(a.location.y - b.location.y) <= radius

ValidRecipients(w, sender, recipients) ==
    {w.agents[i].id : i \in {j \in 1..Len(w.agents) :
        /\ w.agents[j].id \in recipients
        /\ w.agents[j].id # sender.id
        /\ w.agents[j].alive
        /\ InSquare(w.agents[j], sender, sender.visibilityRadius)}}

RECURSIVE RelateAll(_, _, _)
\* for (const rec of validRecipients) updated = updateRelationshipEvent(updated, rec.id, 'communicate')
RelateAll(agent, agents, valid) ==
    IF agents = <<>> THEN agent
    ELSE IF Head(agents).id \in valid
    THEN RelateAll(UpdateRelationshipEvent(agent, Head(agents).id, "communicate", Undefined),
                   Tail(agents), valid)
    ELSE RelateAll(agent, Tail(agents), valid)

\* nonce[id] stands for the text `${Date.now()}_${Math.random()...}` built for id's entry
HandleCommunicate(w, call, nonce) ==
    LET found == FindAgent(w.agents, call.agentId)
    IN IF found = <<>> THEN w
       ELSE IF ~found[1].alive THEN w
       ELSE LET sender == found[1]
                valid == ValidRecipients(w, sender, call.recipients)
                entry(id) == MemoryEntry(w.time, <<"chat", nonce[id]>>, <<"CHAT", sender.id>>)
            IN MapAgents(w, LAMBDA a :
                   IF a.id = sender.id
                   THEN LET u == UpdateHappinessEvent(RelateAll(a, w.agents, valid), "communicate")
                        IN [u EXCEPT !.memory = Append(@, entry(a.id))]
                   ELSE IF a.id \in valid
                   THEN LET u == UpdateHappinessEvent(
                                     UpdateRelationshipEvent(a, sender.id, "communicate", Undefined),
                                     "communicate")
                        IN [u EXCEPT !.memory = Append(@, entry(a.id))]
                   ELSE a)

\* who gets a memory entry, hence a wall-clock/Math.random text, from a communicate
ChatParticipants(w, call) ==
    LET found == FindAgent(w.agents, call.agentId)
    IN IF found = <<>> THEN {}
       ELSE IF ~found[1].alive THEN {}
       ELSE {found[1].id} \cup ValidRecipients(w, found[1], call.recipients)

HandleGather(w, call) ==
    LET tile == TileAt(w, call.location)
    IN IF tile = <<>> THEN w
       ELSE IF tile[1].resources[call.resource] = 0 THEN w
       ELSE LET got == MapAgents(w, LAMBDA a :
                          IF a.id = call.agentId
                          THEN [a EXCEPT !.inventory[call.resource] = @ + 1] ELSE a)
                left == tile[1].resources[call.resource] - 1
            IN [got EXCEPT !.map[<<call.location.x, call.location.y>>].resources[call.resource] =
                              IF left <= 0 THEN 0 ELSE left]

HandleCraft(w, call) ==
    LET found == FindAgent(w.agents, call.agentId)
    IN IF found = <<>> THEN w
       ELSE IF ~found[1].alive THEN w
       ELSE IF call.recipe \notin DOMAIN RECIPES THEN w
       ELSE LET recipe == RECIPES[call.recipe]
            IN IF ~HasAll(found[1].inventory, recipe.ingredients) THEN w
               ELSE LET updatedInventory ==
                            [r \in Resources |->
                                found[1].inventory[r] - recipe.ingredients[r] + recipe.output[r]]
                    IN MapAgents(w, LAMBDA a :
                           IF a.id = found[1].id
                           THEN [a EXCEPT !.inventory = updatedInventory] ELSE a)

\* nonce stands for the text `${Date.now()}_${Math.random()...}` of the structure id
HandleBuild(w, call, nonce) ==
    LET found == FindAgent(w.agents, call.agentId)
        tile == TileAt(w, call.location)
    IN IF found = <<>> \/ tile = <<>> THEN w
       ELSE IF ~found[1].alive THEN w
       ELSE IF tile[1].structure # <<>> THEN w
       ELSE IF call.structureType \notin DOMAIN STRUCTURE_RECIPES THEN w
       ELSE LET recipe == STRUCTURE_RECIPES[call.structureType]
            IN IF ~HasAll(found[1].inventory, recipe) THEN w
               ELSE LET updatedInventory ==
                            [r \in Resources |-> found[1].inventory[r] - recipe[r]]
                        structure == [id |-> <<"structure", nonce>>,
                                      type |-> call.structureType,
                                      location |-> call.location,
                                      durability |-> 100,
                                      builtBy |-> found[1].id]
                        built == [w EXCEPT !.map[<<call.location.x, call.location.y>>].structure =
                                     <<structure>>]
                    IN MapAgents(built, LAMBDA a :
                           IF a.id = found[1].id
                           THEN [a EXCEPT !.inventory = updatedInventory] ELSE a)

----------------------------------------------------------------------------
(* Simulation.tick: shuffle, lifecycle, nutrition, procreation, birth *)

Swap(seq, i, j) == [seq EXCEPT ![i] = seq[j], ![j] = seq[i]]

RECURSIVE FisherYates(_, _)
\* for (i = length - 1; i > 0; i--) { j = floor(random() * (i + 1)); swap(i, j) }
\* with 1-based positions: every j in 1..i is a possible value of the draw
FisherYates(seq, i) ==
    IF i <= 1 THEN {seq}
    ELSE UNION {FisherYates(Swap(seq, i, j), i - 1) : j \in 1..i}

\* the draws one shuffle of n elements takes
ShuffleDraws(n) == IF n > 1 THEN n - 1 ELSE 0

Shuffles(seq) == FisherYates(seq, Len(seq))

DrawN(s, n) == [s EXCEPT !.seed = @ + n]

HoldsAnything(inventory) == \E r \in Resources : inventory[r] > 0

\* tickAgent, the status-transition event and the elder death of one agent.
\* L = [s, newAgents, cur]: s.world is this.world as the lifecycle loop sees
\* it (newWorld shares its agents array, its droppedItems array and the
\* inventory objects with it); cur is the agent record being built.
\* the ageing of the lifecycle step with nothing logged
LifeAgeQuiet(L, agent, dies) ==
    LET s0 == IF TickAgentDraws(agent, config.childDuration, config.childDuration + 2000)
              THEN Draw(L.s) ELSE L.s
        updated == TickAgent(agent, config.childDuration, config.childDuration + 2000, dies)
    IN [L EXCEPT !.s = s0, !.cur = updated]

LifeAge(L, agent, dies) ==
    LET s0 == IF TickAgentDraws(agent, config.childDuration, config.childDuration + 2000)
              THEN Draw(L.s) ELSE L.s
        updated == TickAgent(agent, config.childDuration, config.childDuration + 2000, dies)
        s1 == IF agent.status # updated.status
              THEN LogNew(s0, "event",
                          IF updated.status = "adult" THEN "birth" ELSE "death",
                          <<updated.id>>,
                          [from |-> agent.status, to |-> updated.status])
              ELSE s0
    IN IF agent.alive /\ ~updated.alive
       THEN IF HoldsAnything(updated.inventory)
            THEN LET pile == [location |-> updated.location, inventory |-> updated.inventory]
                     s2 == [s1 EXCEPT !.world.droppedItems = Append(@, pile)]
                     s3 == LogNew(s2, "event", "resource_drop", <<updated.id>>, pile)
                     s4 == LogNew(s3, "event", "death", <<updated.id>>, [reason |-> "elderly"])
                 IN [L EXCEPT !.s = s4, !.cur = [updated EXCEPT !.inventory = ZeroInventory]]
            ELSE [L EXCEPT !.s = LogNew(s1, "event", "death", <<updated.id>>,
                                        [reason |-> "elderly"]),
                           !.cur = updated]
       ELSE [L EXCEPT !.s = s1, !.cur = updated]

\* nutrition: agentAfterEat.inventory is the object the agent of this.world
\* at position idx still holds, so the food it eats leaves this.world too
LifeEat(L, idx) ==
    LET a == L.cur
        time == L.s.world.time
    IN IF a.inventory.food > 0 /\ a.lastMealTick # time
       THEN [L EXCEPT !.cur.inventory.food = @ - 1,
                      !.cur.mealsEaten = @ + 1,
                      !.cur.lastMealTick = time,
                      !.s.world.agents[idx].inventory.food = @ - 1]
       ELSE L

\* the starvation check with no day of grace: a hungry agent dies at once
LifeStarveAtOnce(L) ==
    LET a == L.cur
        time == L.s.world.time
    IN IF (time % 24) = 23 /\ a.mealsEaten < config.mealsPerDay
       THEN [L EXCEPT !.s = LogNew(@, "event", "death", <<a.id>>,
                                   [reason |-> "starvation", mealsEaten |-> a.mealsEaten]),
                      !.cur.alive = FALSE]
       ELSE L

\* the end-of-day starvation check and the start-of-day reset of mealsEaten
LifeStarve(L) ==
    LET a == L.cur
        time == L.s.world.time
        isEndOfDay == (time % 24) = 23
        ateEnough == a.mealsEaten >= config.mealsPerDay
        checked ==
            IF ~isEndOfDay THEN L
            ELSE IF ateEnough THEN [L EXCEPT !.cur.starving = FALSE]
            ELSE IF a.starving
            THEN [L EXCEPT !.s = LogNew(@, "event", "death", <<a.id>>,
                                        [reason |-> "starvation", mealsEaten |-> a.mealsEaten]),
                           !.cur.alive = FALSE]
            ELSE [L EXCEPT !.cur.starving = TRUE]
    IN IF (time % 24) = 0 THEN [checked EXCEPT !.cur.mealsEaten = 0] ELSE checked

\* newWorld.agents.filter(...): the candidates are the agents of this.world
PartnerIds(w, a) ==
    SelectSeq(w.agents, LAMBDA p :
        /\ p.id # a.id
        /\ p.status = "adult"
        /\ p.gender = "male"
        /\ p.location = a.location
        /\ p.pregnancy.state # "set")

LifeProcreate(L) ==
    LET a == L.cur
        partners == PartnerIds(L.s.world, a)
    IN IF a.status = "adult" /\ a.pregnancy.state # "set" /\ a.gender = "female"
          /\ Len(partners) > 0
       THEN [L EXCEPT !.cur.pregnancy =
                          [state |-> "set", startTick |-> L.s.world.time,
                           duration |-> config.pregnancyDuration,
                           partnerId |-> partners[1].id],
                      !.s = LogNew(@, "event", "procreate", <<a.id, partners[1].id>>,
                                   [location |-> a.location])]
       ELSE L

BirthDue(a, time) ==
    a.pregnancy.state = "set" /\ time - a.pregnancy.startTick >= a.pregnancy.duration

NewChild(childId, gender, mother, time) ==
    [id |-> childId, gender |-> gender, age |-> 0, status |-> "child", happiness |-> 100,
     memory |-> <<>>, relationships |-> <<>>, inventory |-> ZeroInventory,
     mealsEaten |-> 0, lastMealTick |-> time, starving |-> FALSE, alive |-> TRUE,
     pregnancy |-> NoPregnancy, location |-> mother.location,
     visibilityRadius |-> mother.visibilityRadius]

\* birth: the id draw, the gender draw and five personality draws; the child is
\* pushed onto newWorld.agents, which is the agents array of this.world
LifeBirth(L, gender) ==
    LET a == L.cur
        time == L.s.world.time
    IN IF BirthDue(a, time)
       THEN LET d == Draw(L.s)
                childId == EventId(d, "child")
                child == NewChild(childId, gender, a, time)
                s1 == DrawN(d, 6)
                s2 == [s1 EXCEPT !.world.agents = Append(@, child)]
            IN [L EXCEPT !.s = LogNew(s2, "event", "birth", <<a.id, childId>>,
                                      [location |-> a.location]),
                         !.cur.pregnancy = UndefinedPregnancy]
       ELSE L

\* the body of shuffledAgents.map(agent => ...) for the agent at position idx
\* of this.world.agents, for given values of its two draws
LifecycleOne(L, idx, agent, dies, gender) ==
    LET done == LifeBirth(LifeProcreate(LifeStarve(LifeEat(LifeAge(L, agent, dies), idx))),
                          gender)
    IN [done EXCEPT !.newAgents = Append(@, done.cur)]

\* the values the draws of one agent's body can take
DeathDraws(agent) ==
    IF TickAgentDraws(agent, config.childDuration, config.childDuration + 2000)
    THEN BOOLEAN ELSE {FALSE}

GenderDraws(L, idx, agent, dies) ==
    IF BirthDue(LifeProcreate(LifeStarve(LifeEat(LifeAge(L, agent, dies), idx))).cur,
                L.s.world.time)
    THEN {"male", "female"} ELSE {"male"}

RECURSIVE LifecycleAll(_, _, _)
\* order holds positions of prevAgents; agents0 is prevAgents as the tick began
LifecycleAll(L, order, agents0) ==
    IF order = <<>> THEN {L}
    ELSE LET idx == Head(order)
             agent == [agents0[idx] EXCEPT !.inventory = L.s.world.agents[idx].inventory]
         IN UNION {LifecycleAll(LifecycleOne(L, idx, agent, dies, gender), Tail(order), agents0) :
                      <<dies, gender>> \in
                          {<<d, g>> \in DeathDraws(agent) \X {"male", "female"} :
                              g \in GenderDraws(L, idx, agent, d)}}

\* tick() up to and including the removal of the dead:
\* newWorld.agents = newAgents.filter(alive); this.world = newWorld
TickLifecycle(s) ==
    LET n == Len(s.world.agents)
        s0 == DrawN(s, ShuffleDraws(n))
    IN UNION {
         {[L.s EXCEPT !.world.agents = SelectSeq(L.newAgents, LAMBDA a : a.alive)] :
             L \in LifecycleAll([s |-> s0, newAgents |-> <<>>, cur |-> <<>>],
                                order, s.world.agents)} :
         order \in Shuffles([i \in 1..n |-> i])}

----------------------------------------------------------------------------
(* Simulation.tick: the action phase without a decision service *)

Directions == <<[dx |-> -1, dy |-> 0], [dx |-> 1, dy |-> 0],
                [dx |-> 0, dy |-> -1], [dx |-> 0, dy |-> 1]>>

VisibleAgents(w, agent) ==
    SelectSeq(w.agents, LAMBDA a :
        a.id # agent.id /\ a.alive /\ InSquare(a, agent, agent.visibilityRadius))

\* which branch executeFallbackAction takes for the agent
FallbackBranch(w, agent) ==
    LET tile == TileAt(w, agent.location)
    IN IF Len(VisibleAgents(w, agent)) > 0 THEN "communicate"
       ELSE IF tile # <<>> /\ tile[1].terrain = "grass" /\ tile[1].cropField = <<>>
       THEN "create_crop_field"
       ELSE IF tile # <<>> /\ tile[1].cropField # <<>> /\ ~tile[1].cropField[1].harvested
       THEN "harvest_crop"
       ELSE "move"

FallbackCommunicateCall(w, agent) ==
    [agentId |-> agent.id, message |-> "Hello", recipients |-> {VisibleAgents(w, agent)[1].id}]

\* executeFallbackAction(agent): dir is the value of randomChoice's draw (1..4),
\* nonce the wall-clock texts of the chat entries, one per participant
ExecuteFallbackAction(s, agent, dir, nonce) ==
    LET w == s.world
        branch == FallbackBranch(w, agent)
        here == [agentId |-> agent.id, location |-> agent.location]
    IN IF branch = "communicate"
       THEN LET call == FallbackCommunicateCall(w, agent)
            IN LogNew([s EXCEPT !.world = HandleCommunicate(w, call, nonce.chat)],
                      "event", "communicate", <<agent.id, VisibleAgents(w, agent)[1].id>>,
                      [message |-> call.message])
       ELSE IF branch = "create_crop_field"
       THEN LogNew([s EXCEPT !.world =
                       HandleCreateCropField(w, here, w.time, config.cropGrowthTime)],
                   "event", "create_crop_field", <<agent.id>>, [location |-> agent.location])
       ELSE IF branch = "harvest_crop"
       THEN LogNew([s EXCEPT !.world =
                       HandleHarvestCrop(w, here, w.time, config.cropWateringRequired)],
                   "event", "harvest_crop", <<agent.id>>, [location |-> agent.location])
       ELSE LET d == Draw(s)
                to == Loc(Max(0, Min(config.mapSize - 1, agent.location.x + Directions[dir].dx)),
                          Max(0, Min(config.mapSize - 1, agent.location.y + Directions[dir].dy)))
            IN LogNew([d EXCEPT !.world = HandleMove(w, [agentId |-> agent.id, to |-> to])],
                      "event", "move", <<agent.id>>, [from |-> agent.location, to |-> to])

\* the inputs of one fallback action: a direction if it moves, texts if it chats
FallbackInputs(w, agent, nonces) ==
    LET branch == FallbackBranch(w, agent)
    IN IF branch = "move"
       THEN {[dir |-> d, nonce |-> [chat |-> <<>>]] : d \in 1..Len(Directions)}
       ELSE IF branch = "communicate"
       THEN {[dir |-> 1, nonce |-> [chat |-> n]] :
                n \in [ChatParticipants(w, FallbackCommunicateCall(w, agent)) -> nonces]}
       ELSE {[dir |-> 1, nonce |-> [chat |-> <<>>]]}

RECURSIVE ProcessAgentsWithFallback(_, _, _)
\* for (const agent of agents) this.executeFallbackAction(agent)
ProcessAgentsWithFallback(s, agents, nonces) ==
    IF agents = <<>> THEN {s}
    ELSE UNION {ProcessAgentsWithFallback(
                    ExecuteFallbackAction(s, Head(agents), in.dir, in.nonce),
                    Tail(agents), nonces) :
                in \in FallbackInputs(s.world, Head(agents), nonces)}

----------------------------------------------------------------------------
(* Simulation.updateWeather, updateDayNight and the end of tick() *)

\* the rain falling on harvested fields too
WaterCropsAll(w) ==
    [w EXCEPT !.map = [c \in DOMAIN w.map |->
        IF w.map[c].cropField # <<>>
        THEN [w.map[c] EXCEPT !.cropField[1].watered = @ + 1]
        ELSE w.map[c]]]

WaterCrops(w) ==
    [w EXCEPT !.map = [c \in DOMAIN w.map |->
        IF w.map[c].cropField # <<>> /\ ~w.map[c].cropField[1].harvested
        THEN [w.map[c] EXCEPT !.cropField[1].watered = @ + 1]
        ELSE w.map[c]]]

\* toggles says whether randomBoolean(0.1) came out true
UpdateWeather(s, toggles) ==
    LET d == Draw(s)
    IN IF ~toggles THEN d
       ELSE LET newWeather == IF d.world.weather = "sun" THEN "rain" ELSE "sun"
                s1 == LogNew([d EXCEPT !.world.weather = newWeather],
                             "event", "weather_change", <<>>, [weather |-> newWeather])
            IN IF newWeather = "rain" THEN [s1 EXCEPT !.world = WaterCrops(@)] ELSE s1

\* updateDayNight with a day that starts an hour late
UpdateDayNightLate(s) ==
    LET hour == s.world.time % 24
    IN [s EXCEPT !.world.dayNight = IF hour > 6 /\ hour < 18 THEN "day" ELSE "night"]

UpdateDayNight(s) ==
    LET hour == s.world.time % 24
    IN [s EXCEPT !.world.dayNight = IF hour >= 6 /\ hour < 18 THEN "day" ELSE "night"]

\* this.updateWeather(); this.world.time++; this.updateDayNight()
TickEnd(s, toggles) ==
    UpdateDayNight([UpdateWeather(s, toggles) EXCEPT !.world.time = @ + 1])

\* the second shuffle: actionAgents = shuffle([...this.world.agents])
ActionOrders(s) == Shuffles(s.world.agents)

\* tick() when no decision service is configured: one synchronous run
TickFallback(s, nonces) ==
    UNION {UNION {UNION {
        {TickEnd(done, toggles) : toggles \in BOOLEAN} :
            done \in ProcessAgentsWithFallback(
                        DrawN(alive, ShuffleDraws(Len(alive.world.agents))), order, nonces)} :
            order \in ActionOrders(alive)} :
            alive \in TickLifecycle(s)}

----------------------------------------------------------------------------
(* Simulation.executeToolCall: validation, resolver, event *)

\* An LLMToolCall.  has is the set of properties the parsed arguments object
\* carries; a property outside has reads as undefined.
ToolCall(name, has, agentId) ==
    [name |-> name, has |-> has, agentId |-> agentId, to |-> Loc(0, 0),
     recipients |-> <<>>, location |-> Loc(0, 0), resource |-> "wood",
     recipe |-> "wooden_tool", structureType |-> "fence",
     fromAgentId |-> NoId, toAgentId |-> NoId, amount |-> 0]

MoveCall(agentId, to) ==
    [ToolCall("move", {"agentId", "to"}, agentId) EXCEPT !.to = to]

CommunicateCall(agentId, recipients) ==
    [ToolCall("communicate", {"agentId", "message", "recipients"}, agentId)
        EXCEPT !.recipients = recipients]

GatherCall(agentId, resource, location) ==
    [ToolCall("gather", {"agentId", "resource", "location"}, agentId)
        EXCEPT !.resource = resource, !.location = location]

CraftCall(agentId, recipe) ==
    [ToolCall("craft", {"agentId", "recipe"}, agentId) EXCEPT !.recipe = recipe]

BuildCall(agentId, structureType, location) ==
    [ToolCall("build", {"agentId", "structureType", "location"}, agentId)
        EXCEPT !.structureType = structureType, !.location = location]

CreateCropFieldCall(agentId, location) ==
    [ToolCall("create_crop_field", {"agentId", "location"}, agentId)
        EXCEPT !.location = location]

HarvestCropCall(agentId, location) ==
    [ToolCall("harvest_crop", {"agentId", "location"}, agentId) EXCEPT !.location = location]

GiveResourceCall(from, to, resource, amount) ==
    [ToolCall("give_resource", {"fromAgentId", "toAgentId", "resource", "amount"}, NoId)
        EXCEPT !.fromAgentId = from, !.toAgentId = to, !.resource = resource,
               !.amount = amount]

Manhattan(a, b) == Abs(a.x - b.x) + Abs(a.y - b.y)

\* the acting agent a case looks up before anything else, as an optional value
Actor(w, call) ==
    IF call.name = "give_resource" THEN FindAgent(w.agents, call.fromAgentId)
    ELSE FindAgent(w.agents, call.agentId)

\* executeToolCall raises a TypeError: it reads a property of an undefined
\* argument (call.to.y; call.recipients.filter; call.location.x)
Throws(w, call) ==
    IF call.name = "move" THEN "to" \notin call.has
    ELSE IF call.name = "communicate"
    THEN Actor(w, call) # <<>> /\ "recipients" \notin call.has
    ELSE IF call.name \in {"gather", "build", "create_crop_field", "harvest_crop"}
    THEN Actor(w, call) # <<>> /\ "location" \notin call.has
    ELSE FALSE

\* call.recipients.filter(...): known agents within Manhattan distance of the radius
ProximateRecipients(w, agent, recipients) ==
    SelectSeq(recipients, LAMBDA id :
        LET r == FindAgent(w.agents, id)
        IN r # <<>> /\ Manhattan(r[1].location, agent.location) <= agent.visibilityRadius)

\* the early returns of executeToolCall: TRUE when the case reaches its resolver
Validated(w, call) ==
    LET actor == Actor(w, call)
    IN IF call.name = "move"
       THEN LET tile == TileAt(w, call.to)
            IN /\ actor # <<>>
               /\ Manhattan(call.to, actor[1].location) <= config.agentMovePerTick
               /\ ~(tile # <<>> /\ tile[1].terrain = "water")
       ELSE IF call.name = "communicate"
       THEN actor # <<>> /\ Len(ProximateRecipients(w, actor[1], call.recipients)) > 0
       ELSE IF call.name \in {"gather", "build", "create_crop_field", "harvest_crop"}
       THEN actor # <<>>
            /\ Manhattan(call.location, actor[1].location) <= actor[1].visibilityRadius
       ELSE IF call.name = "give_resource"
       THEN LET to == FindAgent(w.agents, call.toAgentId)
            IN actor # <<>> /\ to # <<>>
               /\ Manhattan(to[1].location, actor[1].location) <= actor[1].visibilityRadius
       ELSE TRUE

\* the resolver a validated call is handed to
Resolve(w, call, nonce) ==
    IF call.name = "move" THEN HandleMove(w, call)
    ELSE IF call.name = "communicate"
    THEN HandleCommunicate(w,
             [call EXCEPT !.recipients =
                 Range(ProximateRecipients(w, Actor(w, call)[1], call.recipients))],
             nonce.chat)
    ELSE IF call.name = "gather" THEN HandleGather(w, call)
    ELSE IF call.name = "craft" THEN HandleCraft(w, call)
    ELSE IF call.name = "build" THEN HandleBuild(w, call, nonce.structure)
    ELSE IF call.name = "create_crop_field"
    THEN HandleCreateCropField(w, call, w.time, config.cropGrowthTime)
    ELSE IF call.name = "harvest_crop"
    THEN HandleHarvestCrop(w, call, w.time, config.cropWateringRequired)
    ELSE IF call.name = "give_resource" THEN HandleGiveResource(w, call)
    ELSE w

EventType(call) == IF call.name = "give_resource" THEN "give" ELSE call.name

InvolvedAgents(w, call) ==
    IF call.name = "communicate"
    THEN <<call.agentId>> \o ProximateRecipients(w, Actor(w, call)[1], call.recipients)
    ELSE IF call.name = "give_resource" THEN <<call.fromAgentId, call.toAgentId>>
    ELSE <<call.agentId>>

KnownTools == {"move", "communicate", "gather", "craft", "build", "create_crop_field",
               "harvest_crop", "give_resource"}

\* executeToolCall(toolCall): [s, threw]
ExecuteToolCall(s, call, nonce) ==
    IF call.name \notin KnownTools
    THEN [s |-> LogNew(s, "llm_error", "llm_error", <<>>,
                       [error |-> "unknown_tool", toolName |-> call.name]),
          threw |-> FALSE]
    ELSE IF Throws(s.world, call) THEN [s |-> s, threw |-> TRUE]
    ELSE IF ~Validated(s.world, call) THEN [s |-> s, threw |-> FALSE]
    ELSE [s |-> LogNew([s EXCEPT !.world = Resolve(s.world, call, nonce)],
                       "event", EventType(call), InvolvedAgents(s.world, call),
                       IF call.name = "move"
                       THEN [from |-> Actor(s.world, call)[1].location, to |-> call.to]
                       ELSE [call |-> call]),
          threw |-> FALSE]

\* the wall-clock texts a call's resolver will ask for
ToolNonces(w, call, nonces) ==
    IF call.name = "communicate" /\ ~Throws(w, call) /\ Validated(w, call)
    THEN {[chat |-> n, structure |-> 1] :
             n \in [ChatParticipants(w, [call EXCEPT !.recipients =
                        Range(ProximateRecipients(w, Actor(w, call)[1], call.recipients))])
                    -> nonces]}
    ELSE IF call.name = "build"
    THEN {[chat |-> <<>>, structure |-> n] : n \in nonces}
    ELSE {[chat |-> <<>>, structure |-> 1]}

----------------------------------------------------------------------------
(* Initial worlds: what the constructor is handed *)

Tile(terrain, wood, stone) ==
    [terrain |-> terrain,
     resources |-> [ZeroInventory EXCEPT !.wood = wood, !.stone = stone],
     cropField |-> <<>>, structure |-> <<>>]

\* a 2 x 2 island: grass and forest on the north row, water and rock on the south
BaseMap ==
    [c \in Coords |->
        IF c = <<0, 0>> THEN Tile("grass", 0, 0)
        ELSE IF c = <<1, 0>> THEN Tile("forest", 1, 0)
        ELSE IF c = <<0, 1>> THEN Tile("water", 0, 0)
        ELSE Tile("rocky", 0, 1)]

\* createAgent(overrides): pregnancy is overrides.pregnancy, a key holding undefined
CreateAgent(n, gender, status, age, x, y, radius) ==
    [id |-> <<"agent", n>>, gender |-> gender, age |-> age, status |-> status,
     happiness |-> 100, memory |-> <<>>, relationships |-> <<>>,
     inventory |-> ZeroInventory, mealsEaten |-> 0, lastMealTick |-> 0,
     starving |-> FALSE, alive |-> TRUE, pregnancy |-> UndefinedPregnancy,
     location |-> Loc(x, y), visibilityRadius |-> radius]

WorldOf(agents, time) ==
    [map |-> BaseMap, agents |-> agents, droppedItems |-> <<>>, weather |-> "sun",
     time |-> time, dayNight |-> IF (time % 24) >= 6 /\ (time % 24) < 18 THEN "day" ELSE "night"]

\* a couple on the grass tile, the woman holding one meal
CoupleWorld ==
    WorldOf(<<[CreateAgent(1, "female", "adult", 10, 0, 0, 1) EXCEPT !.inventory.food = 1],
              CreateAgent(2, "male", "adult", 10, 0, 0, 1)>>, 0)

\* a starving elder holding wood at the end of a day, next to a child about to grow up
ElderWorld ==
    WorldOf(<<[CreateAgent(1, "male", "elder", 30, 1, 0, 0) EXCEPT
                   !.inventory.wood = 2, !.starving = TRUE],
              CreateAgent(2, "female", "child", 0, 1, 1, 0)>>, 23)

\* one short-sighted farmer alone on the grass tile
FarmerWorld ==
    WorldOf(<<CreateAgent(1, "female", "adult", 10, 0, 0, 0)>>, 5)

\* a starving woman holding one meal at the end of a day, her pregnancy due
ExpectingWorld ==
    WorldOf(<<[CreateAgent(1, "female", "adult", 10, 0, 0, 1) EXCEPT
                   !.inventory.food = 1, !.starving = TRUE,
                   !.pregnancy = [state |-> "set", startTick |-> 22,
                                  duration |-> config.pregnancyDuration,
                                  partnerId |-> <<"agent", 2>>]]>>, 23)

\* a man alone on the rock at the last hour of the day
DuskWorld == WorldOf(<<CreateAgent(1, "male", "adult", 10, 1, 1, 0)>>, 17)

\* a newborn girl alone on the grass, seeing nobody
NurseryWorld == WorldOf(<<CreateAgent(1, "female", "child", 0, 0, 0, 0)>>, 0)

\* a fed woman and a starving man with no food on one tile at the end of a day
WidowWorld ==
    WorldOf(<<[CreateAgent(1, "female", "adult", 10, 0, 0, 1) EXCEPT !.inventory.food = 1],
              [CreateAgent(2, "male", "adult", 10, 0, 0, 1) EXCEPT !.starving = TRUE]>>, 23)

\* three men: the second stands a tile away from the first, the third beside him
CrowdWorld ==
    WorldOf(<<CreateAgent(1, "male", "adult", 10, 0, 0, 1),
              CreateAgent(2, "male", "adult", 10, 1, 0, 1),
              CreateAgent(3, "male", "adult", 10, 0, 0, 1)>>, 0)

InitWorlds ==
    {CoupleWorld, ElderWorld, FarmerWorld, ExpectingWorld, DuskWorld, NurseryWorld,
     WidowWorld}

----------------------------------------------------------------------------
(* The operations of a Simulation as actions *)

Commit(r) ==
    /\ world' = r.world
    /\ eventLog' = r.eventLog
    /\ worldSnapshots' = r.worldSnapshots
    /\ seed' = r.seed
    /\ logged' = r.logged

\* the single text the chat entries and structure ids of one run are given
OneNonce == {1}

\* ids handed to jumpToEvent and branchFromEvent: every id ever logged, and one never logged
KnownIds == (DOMAIN worldSnapshots) \cup {<<"event", 0>>}

GodTargets == {{}, {<<"agent", 1>>}}

Init ==
    /\ world \in InitWorlds
    /\ eventLog = <<>>
    /\ worldSnapshots = <<>>
    /\ seed = 0
    /\ llmClient = FALSE
    /\ ticks = <<>>
    /\ logged = <<>>
    /\ twin = <<>>
    /\ attempts = <<>>
    /\ observer = <<>>
    /\ api = <<>>

\* tick() without a decision service runs to completion in one step
TickSync ==
    /\ ~llmClient
    /\ seed < MaxSeed
    /\ \E r \in TickFallback(SimState, OneNonce) : Commit(r)
    /\ UNCHANGED <<llmClient, ticks, twin, attempts, observer, api>>

GodMessage ==
    /\ seed < MaxSeed
    /\ \E targets \in GodTargets : Commit(SendGodMessage(SimState, targets))
    /\ UNCHANGED <<llmClient, ticks, twin, attempts, observer, api>>

Jump ==
    \E id \in KnownIds :
        /\ Commit(JumpToEvent(SimState, id))
            /\ UNCHANGED <<llmClient, ticks, twin, attempts, observer, api>>

Branch ==
    \E id \in KnownIds :
        /\ Commit(BranchFromEvent(SimState, id))
            /\ UNCHANGED <<llmClient, ticks, twin, attempts, observer, api>>

Next == TickSync \/ GodMessage \/ Jump \/ Branch

Spec == Init /\ [][Next]_vars


----------------------------------------------------------------------------
(* Properties of the event log and the snapshots, under Spec *)

LogIds == {eventLog[i].id : i \in 1..Len(eventLog)}

\* ids that were logged and are no longer in the log
Discarded == (DOMAIN logged) \ LogIds

\* C1: every event after the first has the id of the event before it as its
\* parentEventId, and the first event of the log has no parentEventId
C1_ParentChain ==
    \A i \in 1..Len(eventLog) :
        eventLog[i].parentEventId = IF i = 1 THEN NoId ELSE eventLog[i - 1].id

\* a branch has cut the log and an event was logged on the new timeline
C1_Witness ==
    /\ Len(eventLog) >= 2
    /\ \E d \in Discarded : d[2] < Last(eventLog).id[2]

\* C2: jumpToEvent(e.id), for every event e ever logged, sets the world to a
\* value deep-equal to the world as it was when logEvent(e) stored the
\* snapshot, and no step alters or removes a stored snapshot
C2_SnapshotRoundTrip ==
    /\ [](\A id \in DOMAIN logged :
            /\ HasSnapshot(worldSnapshots, id)
            /\ DeepEqual(JumpToEvent(SimState, id).world, logged[id]))
    /\ [][\A id \in DOMAIN worldSnapshots :
            /\ id \in DOMAIN worldSnapshots'
            /\ worldSnapshots'[id] = worldSnapshots[id]]_vars

\* the world was taken back and then changed: an event logged later than
\* another belongs to an earlier world time, and the world now differs from
\* the older snapshot
C2_Witness ==
    \E a, b \in DOMAIN logged :
        /\ a[2] < b[2]
        /\ logged[a].time > logged[b].time
        /\ ~DeepEqual(world, logged[a])

\* C3: branchFromEvent(id), id in the log with a snapshot, sets the world to
\* a copy of the snapshot and cuts the log to the prefix that ends with id;
\* the next event logged takes id as its parent; and a step that shortens
\* the log is such a branch
C3_BranchTruncates ==
    /\ [](\A id \in LogIds \cap DOMAIN worldSnapshots :
            LET b == BranchFromEvent(SimState, id)
                n == Len(b.eventLog)
                e == LogNew(b, "god", "god_message", <<>>, [message |-> "m"])
            IN /\ b.world = JsonCopy(worldSnapshots[id])
               /\ n >= 1 /\ n <= Len(eventLog)
               /\ b.eventLog = SubSeq(eventLog, 1, n)
               /\ b.eventLog[n].id = id
               /\ Last(e.eventLog).parentEventId = id)
    /\ [][Len(eventLog') < Len(eventLog) =>
            \E id \in LogIds \cap DOMAIN worldSnapshots :
                /\ world' = JsonCopy(worldSnapshots[id])
                /\ Last(eventLog').id = id
                /\ eventLog' = SubSeq(eventLog, 1, Len(eventLog'))]_vars

\* the event logged after a branch has the branch point, older than the
\* discarded event, as its parent
C3_Witness ==
    /\ Len(eventLog) >= 2
    /\ \E d \in Discarded :
          /\ Last(eventLog).parentEventId[2] < d[2]
          /\ d[2] < Last(eventLog).id[2]

\* C4: an event that a branch discarded has no snapshot any more, and a
\* jumpToEvent or branchFromEvent given its id leaves the world unchanged
C4_DiscardedSnapshots ==
    \A d \in Discarded :
        /\ ~HasSnapshot(worldSnapshots, d)
        /\ JumpToEvent(SimState, d).world = world
        /\ BranchFromEvent(SimState, d).world = world


----------------------------------------------------------------------------
(* Properties of the lifecycle phase of a tick, under Spec *)

\* a step of Spec that is a tick: only tick() both draws and advances the clock
TickStep == seed' > seed /\ world'.time = world.time + 1

\* the events a step appended to the log
NewEvents == {eventLog'[k] : k \in (Len(eventLog) + 1)..Len(eventLog')}

\* C11: when a pregnancy reaches its duration during a tick, the completed
\* tick leaves a new agent of age 0 and status child at the mother's
\* location in world.agents, the mother's pregnancy is cleared and a birth
\* event listing the mother and the child has been logged
C11_BirthAddsChild ==
    [][TickStep =>
        \A i \in 1..Len(world.agents) :
            (world.agents[i].alive /\ BirthDue(world.agents[i], world.time)) =>
                \E j \in 1..Len(world'.agents) :
                    /\ world'.agents[j].id \notin AgentIds(world)
                    /\ world'.agents[j].age = 0
                    /\ world'.agents[j].status = "child"
                    /\ world'.agents[j].location = world.agents[i].location
                    /\ \E e \in NewEvents :
                          /\ e.type = "birth"
                          /\ e.agentsInvolved = <<world.agents[i].id, world'.agents[j].id>>
                    /\ \A m \in 1..Len(world'.agents) :
                          world'.agents[m].id = world.agents[i].id =>
                              world'.agents[m].pregnancy.state # "set"]_vars

\* a death event of the given reason naming the agent is among the new events
DeathLogged(id, reason) ==
    \E e \in NewEvents :
        /\ e.type = "death"
        /\ "reason" \in DOMAIN e.details
        /\ e.details.reason = reason
        /\ e.agentsInvolved = <<id>>

\* mealsEaten as the end-of-day check of the tick reads it: after the meal of the tick
MealsAtCheck(a, time) ==
    a.mealsEaten + (IF a.inventory.food > 0 /\ a.lastMealTick # time THEN 1 ELSE 0)

HeldAtDeath(a) ==
    {a.inventory} \cup
    (IF a.inventory.food > 0
     THEN {[a.inventory EXCEPT !.food = @ - 1]} ELSE {})

\* C13: an agent that dies during a tick, of old age or of starvation,
\* holding a non-zero inventory leaves a dropped-item pile of exactly that
\* inventory at its location, and a resource_drop event naming it is logged.
C13_DeathDropsInventory ==
    [][TickStep =>
        \A i \in 1..Len(world.agents) :
            LET a == world.agents[i]
            IN (/\ a.alive
                /\ \A inv \in HeldAtDeath(a) : inv # ZeroInventory
                /\ DeathLogged(a.id, "elderly") \/ DeathLogged(a.id, "starvation")) =>
                 \E e \in NewEvents :
                     /\ e.type = "resource_drop"
                     /\ e.agentsInvolved = <<a.id>>
                     /\ e.details.inventory \in HeldAtDeath(a)
                     /\ e.details.location = a.location
                     /\ \E k \in 1..Len(world'.droppedItems) :
                           world'.droppedItems[k] = e.details]_vars

\* the living agents a god message with these ids is for
LivingRecipients(w, ids) ==
    {w.agents[i].id : i \in {j \in 1..Len(w.agents) :
                               w.agents[j].alive /\ (ids = {} \/ w.agents[j].id \in ids)}}

\* C22: sendGodMessage(message, ids) appends exactly one god_message event
\* whose agentsInvolved are exactly the recipients (all living agents when
\* ids is empty, else the living agents with an id in ids), adds exactly one
\* memory entry to each recipient and changes nothing else in the world.
C22_GodMessageFrame ==
    \A ids \in GodTargets :
        LET after == SendGodMessage(SimState, ids)
            rec == LivingRecipients(world, ids)
            event == Last(after.eventLog)
        IN /\ Len(after.eventLog) = Len(eventLog) + 1
           /\ SubSeq(after.eventLog, 1, Len(eventLog)) = eventLog
           /\ event.type = "god_message"
           /\ Range(event.agentsInvolved) = rec
           /\ Len(event.agentsInvolved) = Cardinality(rec)
           /\ [after.world EXCEPT !.agents = world.agents] = world
           /\ Len(after.world.agents) = Len(world.agents)
           /\ \A i \in 1..Len(world.agents) :
                 LET a == world.agents[i]
                     b == after.world.agents[i]
                 IN IF a.id \in rec
                    THEN /\ [b EXCEPT !.memory = a.memory] = a
                         /\ Len(b.memory) = Len(a.memory) + 1
                         /\ SubSeq(b.memory, 1, Len(a.memory)) = a.memory
                    ELSE b = a

\* a god message for one of two agents has been sent: the event names that
\* agent alone, who remembers it, and the other agent remembers nothing
C22_Witness ==
    /\ eventLog # <<>>
    /\ Last(eventLog).type = "god_message"
    /\ Len(world.agents) = 2
    /\ Len(Last(eventLog).agentsInvolved) = 1
    /\ \E i, j \in 1..2 :
          /\ world.agents[i].id = Last(eventLog).agentsInvolved[1]
          /\ world.agents[i].memory # <<>>
          /\ Last(world.agents[i].memory).tick = Last(eventLog).tick
          /\ world.agents[j].memory = <<>>

\* C23: each completed tick increases world.time by exactly 1, and after it
\* dayNight is 'day' exactly when 6 <= (time mod 24) < 18, else 'night'.
C23_ClockAndDayNight ==
    [][TickSync =>
          /\ world'.time = world.time + 1
          /\ world'.dayNight \in {"day", "night"}
          /\ world'.dayNight = "day" <=>
                (6 <= world'.time % 24 /\ world'.time % 24 < 18)]_vars

\* the tick of hour 17 has run: it is hour 18 and night has fallen
C23_Witness ==
    /\ world.time = 18
    /\ world.dayNight = "night"
    /\ \E k \in 1..Len(eventLog) : eventLog[k].tick = 17

\* the events of the actions that only adults and elders are offered
GrownUpEventTypes ==
    {"gather", "craft", "build", "create_crop_field", "harvest_crop", "give"}

\* C24: no gather, craft, build, create_crop_field, harvest_crop or give
\* event is ever logged with a child as its acting agent.
C24_ChildrenOnlyMoveAndTalk ==
    [][\A e \in NewEvents :
          e.type \in GrownUpEventTypes =>
              \A i \in 1..Len(world'.agents) :
                  world'.agents[i].id = e.agentsInvolved[1] =>
                      world'.agents[i].status # "child"]_vars

\* the agent is in world.agents after the step
Remains(id) == \E i \in 1..Len(world'.agents) : world'.agents[i].id = id

\* C25: a procreate event is logged during a tick only for a female and a
\* male that are both alive, adult, co-located and not pregnant; never for an
\* agent that has died in the same tick or is removed at its removal step.
C25_ProcreateOnlyLiving ==
    [][TickStep =>
        \A e \in NewEvents :
            e.type = "procreate" =>
                LET her == FindAgent(world.agents, e.agentsInvolved[1])
                    him == FindAgent(world.agents, e.agentsInvolved[2])
                IN /\ her # <<>> /\ him # <<>>
                   /\ her[1].gender = "female" /\ him[1].gender = "male"
                   /\ her[1].alive /\ him[1].alive
                   /\ her[1].location = him[1].location
                   /\ her[1].pregnancy.state # "set" /\ him[1].pregnancy.state # "set"
                   /\ \A id \in {her[1].id, him[1].id} :
                         /\ ~DeathLogged(id, "elderly")
                         /\ ~DeathLogged(id, "starvation")
                         /\ Remains(id)
                         /\ FindAgent(world'.agents, id)[1].status = "adult"]_vars

\* the new events that record a change of status of the agent
TransitionEvents(id) ==
    {e \in NewEvents :
        /\ e.type \in {"birth", "death"}
        /\ "from" \in DOMAIN e.details /\ "to" \in DOMAIN e.details
        /\ e.agentsInvolved = <<id>>}

\* the new events of type 'birth' that involve the agent
BirthEvents(id) ==
    {e \in NewEvents : e.type = "birth" /\ id \in Range(e.agentsInvolved)}

PlantOrHarvest(w, loc) ==
    LET tile == TileAt(w, loc)
    IN /\ tile # <<>>
       /\ \/ tile[1].terrain = "grass" /\ tile[1].cropField = <<>>
          \/ tile[1].cropField # <<>> /\ ~tile[1].cropField[1].harvested

\* C28: without a decision service, a tick in which a living agent sees no
\* other agent and stands on a tile that is neither plantable grass nor
\* holds an unharvested field ends with the agent at another location and a
\* move event involving it logged.  (Stated for an agent alone in the world,
\* who sees nobody at any point of the tick.)
C28_LoneAgentMoves ==
    [][(/\ TickStep
        /\ Len(world.agents) = 1
        /\ world.agents[1].alive
        /\ Remains(world.agents[1].id)
        /\ ~PlantOrHarvest(world, world.agents[1].location)) =>
            /\ FindAgent(world'.agents, world.agents[1].id)[1].location
                  # world.agents[1].location
            /\ \E e \in NewEvents :
                  e.type = "move" /\ e.agentsInvolved = <<world.agents[1].id>>]_vars

\* the death events of the log
DeathEvents == {k \in 1..Len(eventLog) : eventLog[k].type = "death"}

\* every death event of the step names an agent the step removed
DeathsNameTheDead ==
    TickStep => \A e \in NewEvents :
                    e.type = "death" => e.agentsInvolved[1] \notin AgentIds(world')

\* no agent has two death events
OneDeathEach ==
    \A i, j \in DeathEvents :
        eventLog[i].agentsInvolved = eventLog[j].agentsInvolved => i = j

\* C34: every death event names an agent that died at that tick, absent
\* from world.agents once the tick completes, and the log holds at most one
\* death event per agent.
C34_DeathEventsNameTheDead ==
    []OneDeathEach /\ [][DeathsNameTheDead]_vars

\* the agent as the snapshot stored for event e holds it, as an optional value
InSnapshot(e, id) == FindAgent(worldSnapshots[e.id].agents, id)

\* the snapshot of a death event holds the named agent dead or not at all
DeathSnapshotted(e) ==
    (e.type = "death" /\ "reason" \in DOMAIN e.details) =>
        LET a == InSnapshot(e, e.agentsInvolved[1])
        IN a = <<>> \/ ~a[1].alive

\* the snapshot of a procreate event holds the woman with her pregnancy
ProcreateSnapshotted(e) ==
    e.type = "procreate" =>
        LET a == InSnapshot(e, e.agentsInvolved[1])
        IN a # <<>> /\ a[1].pregnancy.state = "set"

\* the snapshot of a change to rain holds the fields as the rain left them
RainSnapshotted(e) ==
    (e.type = "weather_change" /\ e.details.weather = "rain") =>
        \A c \in Coords :
            worldSnapshots'[e.id].map[c].cropField = world'.map[c].cropField

\* C36: the snapshot stored for an event already contains the state change
\* the event records: for a death event the named agent is not alive in
\* the snapshot, for a procreate event the woman carries the pregnancy
\* record, and for a weather change to rain the unharvested fields carry
\* the incremented watered count.
C36_SnapshotHoldsTheChange ==
    /\ [](\A k \in 1..Len(eventLog) :
             DeathSnapshotted(eventLog[k]) /\ ProcreateSnapshotted(eventLog[k]))
    /\ [][TickStep => \A e \in NewEvents : RainSnapshotted(e)]_vars

\* C37: along the event log the ticks of the events never decrease, after
\* any sequence of ticks, god messages, jumpToEvent and branchFromEvent.
C37_LogTicksAscend ==
    \A i \in 1..(Len(eventLog) - 1) : eventLog[i].tick <= eventLog[i + 1].tick

\* C38: whenever branchFromEvent(id) changes the world, the event log ends
\* afterwards with the event whose id is id, also when id belongs to an
\* event that an earlier branch removed from the log.
C38_BranchEndsAtItsEvent ==
    \A id \in KnownIds :
        LET r == BranchFromEvent(SimState, id)
        IN r.world # world =>
              r.eventLog # <<>> /\ Last(r.eventLog).id = id

\* the tiles of water
WaterTiles(w) == {c \in DOMAIN w.map : w.map[c].terrain = "water"}

\* C19: no agent is located on a water tile, and no water tile hosts a crop
\* field or a structure.
C19_NothingOnWater ==
    /\ \A i \in 1..Len(world.agents) :
          <<world.agents[i].location.x, world.agents[i].location.y>> \notin WaterTiles(world)
    /\ \A c \in WaterTiles(world) :
          world.map[c].cropField = <<>> /\ world.map[c].structure = <<>>

----------------------------------------------------------------------------
(* tick() with a decision service: processAgentsWithLLM and               *)
(* processSingleAgentWithLLM as the steps the event loop can interleave    *)

BatchSize == 5

MaxAttempts == 10

\* The frame of one tick() invocation that has passed the removal step.
\* order is actionAgents; slots[k] is processSingleAgentWithLLM(order[k]):
\* idle (batch not started), waiting (inside the attempt loop, a getToolCalls
\* request out), done (returned) or threw (rejected).  An attempt that brings
\* no tool call changes nothing but the loop counter, so the counter is not
\* kept: a waiting slot stands for every attempt of the loop.
\* phase: actions, finishing (the batches are through) or rejected (a slot
\* threw, Promise.all and with it the promise of tick() were rejected; the
\* other requests of the batch stay out and are still answered).
NewFrame(order, time) ==
    [order |-> order,
     startTime |-> time,
     batch |-> 1,
     phase |-> IF order = <<>> THEN "finishing" ELSE "actions",
     slots |-> [k \in 1..Len(order) |->
                  IF k <= BatchSize THEN "waiting" ELSE "idle"]]

BatchOf(frame) == {k \in 1..Len(frame.order) : k >= frame.batch /\ k < frame.batch + BatchSize}

\* await Promise.all(batch.map(...)) and the for loop over the batches
SlotDone(frame, k, threw) ==
    LET f1 == [frame EXCEPT !.slots[k] = IF threw THEN "threw" ELSE "done"]
    IN IF threw THEN [f1 EXCEPT !.phase = "rejected"]
       ELSE IF f1.phase = "actions" /\ \A j \in BatchOf(f1) : f1.slots[j] = "done"
       THEN IF f1.batch + BatchSize <= Len(f1.order)
            THEN [f1 EXCEPT !.batch = @ + BatchSize,
                            !.slots = [j \in 1..Len(f1.order) |->
                                IF j >= f1.batch + BatchSize /\ j < f1.batch + 2 * BatchSize
                                THEN "waiting"
                                ELSE f1.slots[j]]]
            ELSE [f1 EXCEPT !.phase = "finishing"]
       ELSE f1

RemoveAt(seq, i) == SubSeq(seq, 1, i - 1) \o SubSeq(seq, i + 1, Len(seq))

InProgress(tks) == {t \in 1..Len(tks) : tks[t].phase = "actions"}

Waiting == {<<t, k>> \in (1..Len(ticks)) \X (1..Len(world.agents) + 1) :
               k <= Len(ticks[t].order) /\ ticks[t].slots[k] = "waiting"}

\* The continuation of tick() after the last batch: updateWeather, time++,
\* updateDayNight.  It runs in the same turn of the event loop as the
\* completion of the last slot, before any timer or response is handled.
Settle(s, tks, t, k, threw, toggles) ==
    LET f == SlotDone(tks[t], k, threw)
    IN IF f.phase = "finishing"
       THEN [s |-> TickEnd(s, toggles), ticks |-> RemoveAt(tks, t)]
       ELSE [s |-> s, ticks |-> [tks EXCEPT ![t] = f]]

\* what the decision service may answer for an agent in the concurrency scenarios:
\* a legal move, and a move whose arguments lack "to"
ServiceCalls(agent) ==
    {MoveCall(agent.id, Loc(1, 0)),
     [MoveCall(agent.id, Loc(0, 0)) EXCEPT !.has = {"agentId"}]}

\* two men, one on the grass and one in the forest, each seeing the other
PairWorld ==
    WorldOf(<<CreateAgent(1, "male", "adult", 10, 0, 0, 1),
              CreateAgent(2, "male", "adult", 10, 1, 0, 1)>>, 0)

InitLLM ==
    /\ world = PairWorld
    /\ eventLog = <<>>
    /\ worldSnapshots = <<>>
    /\ seed = 0
    /\ llmClient = TRUE
    /\ ticks = <<>>
    /\ logged = <<>>
    /\ twin = <<>>
    /\ attempts = <<>>
    /\ observer = <<>>
    /\ api = <<>>

\* tick() is entered (by the start() timer or by generateSingleTick) and runs
\* to its first await: lifecycle, removal, second shuffle, first batch issued.
\* Neither the timer callback nor generateSingleTick looks at a tick in progress.
\* maxSeed and maxInFlight are the bounds of the scenario.
TickEnters(maxSeed, maxInFlight) ==
    /\ llmClient
    /\ Cardinality(InProgress(ticks)) < maxInFlight
    /\ seed < maxSeed
    /\ \E alive \in TickLifecycle(SimState) :
         \E order \in ActionOrders(alive) :
            LET s1 == DrawN(alive, ShuffleDraws(Len(order)))
                f == NewFrame(order, world.time)
            IN IF f.phase = "finishing"
               THEN /\ \E toggles \in BOOLEAN : Commit(TickEnd(s1, toggles))
                    /\ ticks' = ticks
               ELSE /\ Commit(s1)
                    /\ ticks' = Append(ticks, f)
    /\ UNCHANGED <<llmClient, twin, attempts, observer, api>>

TickStart == TickEnters(MaxSeedLLM, MaxInFlight)

\* the last of the MaxAttempts getToolCalls requests resolves with no tool call
\* (the service answered without one, or failed and getToolCalls returned its
\* empty response): the loop ends and the llm_error event is logged
\* the turn of slot k of tick t ends with no tool call after n queries
GiveUp(t, k, n, toggles) ==
    LET e == LogNew(SimState, "llm_error", "llm_error",
                    <<ticks[t].order[k].id>>,
                    [error |-> "no_tool_calls_after_retry", attempts |-> n])
        r == Settle(e, ticks, t, k, FALSE, toggles)
    IN /\ Commit(r.s)
       /\ ticks' = r.ticks
       /\ UNCHANGED <<llmClient, twin, observer, api>>

LLMNothing ==
    \E <<t, k>> \in Waiting :
        \E toggles \in BOOLEAN :
            GiveUp(t, k, MaxAttempts, toggles) /\ UNCHANGED attempts

\* a getToolCalls request resolves with tool calls; the first is executed.
\* Calls(agent) is what the service may answer for the agent.
\* the turn of slot k of tick t ends with the execution of a tool call
Executes(t, k, call, nonce, toggles) ==
    LET x == ExecuteToolCall(SimState, call, nonce)
        r == Settle(x.s, ticks, t, k, x.threw, toggles)
    IN /\ Commit(r.s)
       /\ ticks' = r.ticks
       /\ UNCHANGED <<llmClient, twin, observer, api>>

Decides(Calls(_)) ==
    \E <<t, k>> \in Waiting :
        \E call \in Calls(ticks[t].order[k]) :
            \E nonce \in ToolNonces(world, call, OneNonce) :
                \E toggles \in BOOLEAN :
                    Executes(t, k, call, nonce, toggles) /\ UNCHANGED attempts

LLMDecides == Decides(ServiceCalls)

NextLLM == TickStart \/ LLMNothing \/ LLMDecides

SpecLLM == InitLLM /\ [][NextLLM]_vars

----------------------------------------------------------------------------
(* Properties of ticks with a decision service, under SpecLLM *)

Settled(frame, k) == frame.slots[k] \in {"done", "threw"}

\* C6: at most one tick() execution is in progress at any instant, and no
\* two ticks in progress were started for the same world.time
C6_OneTickAtATime ==
    /\ Cardinality(InProgress(ticks)) <= 1
    /\ \A t, u \in InProgress(ticks) : ticks[t].startTime = ticks[u].startTime => t = u

\* C7: within a tick the actions are applied in the shuffled order: for
\* positions i < j of the action-phase order, the action of the agent at j is
\* not applied while the action of the agent at i is not
C7_ActionsInShuffledOrder ==
    \A t \in 1..Len(ticks) :
        \A i, j \in 1..Len(ticks[t].order) :
            (i < j /\ Settled(ticks[t], j)) => Settled(ticks[t], i)

\* C8: no started tick is aborted by what the decision service returned for
\* one agent, and a tick that ends has increased world.time by exactly 1
C8_EveryTickCompletes ==
    /\ [](\A t \in 1..Len(ticks) : ticks[t].phase # "rejected")
    /\ [][Len(ticks') < Len(ticks) => world'.time = world.time + 1]_vars

----------------------------------------------------------------------------
(* The resource tools: ticks with a decision service, one at a time, in     *)
(* which the service answers with gather, craft, build, crop and give calls *)

MaxSeedTools == 5      \* no new tick of the tool scenario once this many draws are taken

\* amounts the service may put into a give_resource call
GiveAmounts == {-1, 1, 2}

\* a man with three wood on the grass and a man with nothing in the forest
ToolWorld ==
    WorldOf(<<[CreateAgent(1, "male", "adult", 10, 0, 0, 1) EXCEPT !.inventory.wood = 3],
              CreateAgent(2, "male", "adult", 10, 1, 0, 1)>>, 0)

ToolCalls(w, agent) ==
    {GatherCall(agent.id, "wood", Loc(1, 0)),
     GatherCall(agent.id, "stone", Loc(0, 0)),
     CraftCall(agent.id, "wooden_tool"),
     BuildCall(agent.id, "fence", Loc(0, 0)),
     CreateCropFieldCall(agent.id, Loc(0, 0)),
     CreateCropFieldCall(agent.id, Loc(1, 0)),
     HarvestCropCall(agent.id, Loc(0, 0))}
    \cup {GiveResourceCall(agent.id, o, "wood", n) :
             o \in AgentIds(w) \ {agent.id}, n \in GiveAmounts}

ToolCallsNow(agent) == ToolCalls(world, agent)

InitTools ==
    /\ world = ToolWorld
    /\ eventLog = <<>>
    /\ worldSnapshots = <<>>
    /\ seed = 0
    /\ llmClient = TRUE
    /\ ticks = <<>>
    /\ logged = <<>>
    /\ twin = <<>>
    /\ attempts = <<>>
    /\ observer = <<>>
    /\ api = <<>>

ToolTickStart == TickEnters(MaxSeedTools, 1)

ToolDecides == Decides(ToolCallsNow)

NextTools == ToolTickStart \/ ToolDecides

SpecTools == InitTools /\ [][NextTools]_vars

\* C9: every inventory count of every agent and every resource count of
\* every tile is at least 0
C9_NonNegative ==
    /\ \A i \in 1..Len(world.agents) :
          \A r \in Resources : world.agents[i].inventory[r] >= 0
    /\ \A c \in DOMAIN world.map :
          \A r \in Resources : world.map[c].resources[r] >= 0

\* the preconditions the resolvers are to enforce, read off the world
PreconditionFails(w, call) ==
    LET actor == Actor(w, call)
        tile == TileAt(w, call.location)
    IN /\ actor # <<>>
       /\ IF call.name = "craft"
          THEN ~HasAll(actor[1].inventory, RECIPES[call.recipe].ingredients)
          ELSE IF call.name = "build"
          THEN \/ ~HasAll(actor[1].inventory, STRUCTURE_RECIPES[call.structureType])
               \/ (tile # <<>> /\ tile[1].structure # <<>>)
          ELSE IF call.name = "gather"
          THEN tile # <<>> /\ tile[1].resources[call.resource] = 0
          ELSE IF call.name = "create_crop_field"
          THEN tile # <<>> /\ (tile[1].terrain # "grass" \/ tile[1].cropField # <<>>)
          ELSE IF call.name = "harvest_crop"
          THEN /\ tile # <<>> /\ tile[1].cropField # <<>>
               /\ \/ w.time < tile[1].cropField[1].matureTick
                  \/ tile[1].cropField[1].watered < config.cropWateringRequired
          ELSE IF call.name = "give_resource"
          THEN call.amount > actor[1].inventory[call.resource]
          ELSE FALSE

\* C10: an attempted action whose precondition fails changes nothing in the
\* world and appends no event to the log
C10_FailedActionIsDropped ==
    \A i \in 1..Len(world.agents) :
        \A call \in ToolCalls(world, world.agents[i]) :
            PreconditionFails(world, call) =>
                \A nonce \in ToolNonces(world, call, OneNonce) :
                    LET r == ExecuteToolCall(SimState, call, nonce).s
                    IN r.world = world /\ r.eventLog = eventLog

----------------------------------------------------------------------------
(* Two runs side by side: the same initial world, config and seed, and the  *)
(* same mocked decision service, which answers every request at once        *)

MaxSeedDet == 1        \* no new pair of ticks once this many draws are taken

\* texts `${Date.now()}_${Math.random()...}` can come out as; each run asks on its own
DetNonces == {1, 2}

\* what the mocked service may answer for an agent: talk to the others, or
\* build a fence where the agent stands
MockCalls(w, agent) ==
    {CommunicateCall(agent.id,
         SelectSeq([i \in 1..Len(w.agents) |-> w.agents[i].id], LAMBDA id : id # agent.id)),
     BuildCall(agent.id, "fence", agent.location)}

RECURSIVE ProcessAgentsWithMock(_, _, _)
\* processAgentsWithLLM when every getToolCalls resolves at once with one
\* call: the continuations of a batch run in the order of the batch
ProcessAgentsWithMock(s, agents, nonces) ==
    IF agents = <<>> THEN {s}
    ELSE UNION {UNION {ProcessAgentsWithMock(
                           ExecuteToolCall(s, call, nonce).s, Tail(agents), nonces) :
                       nonce \in ToolNonces(s.world, call, nonces)} :
                call \in MockCalls(s.world, Head(agents))}

\* tick() with the mocked service, run to its end
TickMock(s, nonces) ==
    UNION {UNION {UNION {
        {TickEnd(done, toggles) : toggles \in BOOLEAN} :
            done \in ProcessAgentsWithMock(
                        DrawN(alive, ShuffleDraws(Len(alive.world.agents))), order, nonces)} :
            order \in ActionOrders(alive)} :
            alive \in TickLifecycle(s)}

\* A run with the wall-clock texts blanked.  The draws of the seeded stream
\* and the answers of the mock are functions of what both runs share, so two
\* runs that took the same step agree on everything but these texts.
Blind(s) ==
    [eventLog |-> s.eventLog,
     seed |-> s.seed,
     world |-> [s.world EXCEPT
        !.agents = [i \in 1..Len(s.world.agents) |->
            [s.world.agents[i] EXCEPT !.memory = [k \in 1..Len(@) |->
                IF @[k].eventId[1] = "chat"
                THEN [@[k] EXCEPT !.eventId = <<"chat", 0>>] ELSE @[k]]]],
        !.map = [c \in DOMAIN s.world.map |->
            IF s.world.map[c].structure # <<>>
            THEN [s.world.map[c] EXCEPT !.structure[1].id = <<"structure", 0>>]
            ELSE s.world.map[c]]]]

InitDet ==
    /\ world = ToolWorld
    /\ eventLog = <<>>
    /\ worldSnapshots = <<>>
    /\ seed = 0
    /\ llmClient = TRUE
    /\ ticks = <<>>
    /\ logged = <<>>
    /\ twin = [world |-> ToolWorld, eventLog |-> <<>>, worldSnapshots |-> <<>>,
               seed |-> 0, logged |-> <<>>]
    /\ attempts = <<>>
    /\ observer = <<>>
    /\ api = <<>>

\* both runs are driven through one more tick
DetTick ==
    /\ seed < MaxSeedDet
    /\ \E a \in TickMock(SimState, DetNonces) :
          \E b \in {x \in TickMock(twin, DetNonces) : Blind(x) = Blind(a)} :
              /\ Commit(a)
              /\ twin' = b
    /\ UNCHANGED <<llmClient, ticks, attempts, observer, api>>

NextDet == DetTick

SpecDet == InitDet /\ [][NextDet]_vars

\* C5: after the same number of ticks the two runs have identical event
\* logs and identical worlds, memory entries and structure records included
C5_Deterministic ==
    /\ twin.eventLog = eventLog
    /\ twin.world = world

----------------------------------------------------------------------------
(* A death during a tick with a decision service: an adult that starves to  *)
(* death at the end of day 0 next to a well-fed adult whose decisions the   *)
(* service makes.  The agentId of a tool call is what the service wrote.    *)

MaxSeedWake == 8       \* no new tick of this scenario once this many draws are taken

\* a starving man with three wood and no food, and a man with food for days
HungerWorld ==
    WorldOf(<<[CreateAgent(1, "male", "adult", 10, 0, 0, 1) EXCEPT
                   !.inventory.wood = 3, !.starving = TRUE],
              [CreateAgent(2, "male", "adult", 10, 1, 0, 1) EXCEPT
                   !.inventory.food = 3, !.inventory.wood = 3]>>, 23)

\* the service's answers: a craft call in the name of either man of the
\* scenario, or a gather call of the queried agent
WakeCalls(agent) ==
    {CraftCall(id, "wooden_tool") : id \in AgentIds(HungerWorld)}
    \cup {GatherCall(agent.id, "wood", Loc(1, 0))}

InitWake ==
    /\ world = HungerWorld
    /\ eventLog = <<>>
    /\ worldSnapshots = <<>>
    /\ seed = 0
    /\ llmClient = TRUE
    /\ ticks = <<>>
    /\ logged = <<>>
    /\ twin = <<>>
    /\ attempts = <<>>
    /\ observer = <<>>
    /\ api = <<>>

WakeTickStart == TickEnters(MaxSeedWake, 1)

WakeDecides == Decides(WakeCalls)

NextWake == WakeTickStart \/ WakeDecides

SpecWake == InitWake /\ [][NextWake]_vars

\* the events that record an action of an agent
ActionEventTypes ==
    {"move", "communicate", "gather", "craft", "build", "create_crop_field",
     "harvest_crop", "give"}

\* the agent the event names died at tick t
DiedAt(id, t) ==
    \E k \in 1..Len(eventLog) :
        /\ eventLog[k].type = "death"
        /\ "reason" \in DOMAIN eventLog[k].details
        /\ eventLog[k].tick = t
        /\ eventLog[k].agentsInvolved = <<id>>

\* C14: every agent of world.agents is alive, and no action event of a tick
\* has as its acting agent an agent that died in that tick.
C14_DeadDoNotAct ==
    /\ \A i \in 1..Len(world.agents) : world.agents[i].alive
    /\ \A k \in 1..Len(eventLog) :
          eventLog[k].type \in ActionEventTypes =>
              ~DiedAt(eventLog[k].agentsInvolved[1], eventLog[k].tick)

----------------------------------------------------------------------------
(* tickAgent on its own: an agent drawn from small sets, aged over and over *)
(* with thresholds and mortality draws chosen at each application.  twin    *)
(* keeps the agent the applications started from.                           *)

MaxAge == 4            \* no application once the agent has this age
MaxStartAge == 2       \* the agents drawn start at ages 0..MaxStartAge

Statuses == <<"child", "adult", "elder">>

\* the position of a status in the order child < adult < elder
Rank(status) == CHOOSE r \in 1..3 : Statuses[r] = status

ChildDurations == {1, 3}
ElderAges == {2, 4}

Subject == world.agents[1]

InitAgent ==
    /\ \E status \in Range(Statuses), age \in 0..MaxStartAge, alive \in BOOLEAN :
          LET agent == [CreateAgent(1, "female", status, age, 0, 0, 1)
                           EXCEPT !.alive = alive]
          IN world = WorldOf(<<agent>>, 0) /\ twin = <<agent>>
    /\ eventLog = <<>>
    /\ worldSnapshots = <<>>
    /\ seed = 0
    /\ llmClient = FALSE
    /\ ticks = <<>>
    /\ logged = <<>>
    /\ attempts = <<>>
    /\ observer = <<>>
    /\ api = <<>>

\* one application of tickAgent; seed counts the calls of random()
ApplyTickAgent ==
    /\ Subject.age < MaxAge
    /\ \E childDuration \in ChildDurations, elderAge \in ElderAges, dies \in BOOLEAN :
          /\ world' = [world EXCEPT
                          !.agents[1] = TickAgent(Subject, childDuration, elderAge, dies)]
          /\ seed' = seed + (IF TickAgentDraws(Subject, childDuration, elderAge)
                             THEN 1 ELSE 0)
    /\ UNCHANGED <<eventLog, worldSnapshots, llmClient, ticks, logged, twin, attempts, observer, api>>

NextAgent == ApplyTickAgent

SpecAgent == InitAgent /\ [][NextAgent]_vars

\* C15: however often tickAgent is applied, age never decreases and status
\* never moves backward in child < adult < elder; each application to a
\* living agent adds exactly 1 to its age; an agent that is not alive is
\* returned unchanged and never becomes alive.
C15_TickAgentMonotone ==
    /\ [](/\ Subject.age >= twin[1].age
          /\ Rank(Subject.status) >= Rank(twin[1].status)
          /\ ~twin[1].alive => Subject = twin[1])
    /\ [][/\ world'.agents[1].age >= Subject.age
          /\ Rank(world'.agents[1].status) >= Rank(Subject.status)
          /\ Subject.alive => world'.agents[1].age = Subject.age + 1
          /\ ~Subject.alive => world'.agents[1] = Subject]_vars

\* a living child has been aged twice, has grown into an elder and died
C15_Witness ==
    /\ twin # <<>> /\ Len(world.agents) = 1
    /\ "status" \in DOMAIN twin[1]
    /\ twin[1].status = "child" /\ twin[1].alive
    /\ Subject.age = twin[1].age + 2
    /\ Subject.status = "elder" /\ ~Subject.alive

----------------------------------------------------------------------------
(* The crop handlers and updateWeather on their own: a world with or        *)
(* without a growing field on the grass tile, on which create_crop_field    *)
(* and harvest_crop are resolved for every agent and location, and whose    *)
(* ticks end with updateWeather.                                            *)

MaxCropTime == 3       \* no end of tick once world.time has this value
MaxMatureTick == 2     \* the fields drawn mature at ticks 1..MaxMatureTick

\* the locations the calls name: every tile, and one off the map
CropTargets == {Loc(c[1], c[2]) : c \in Coords} \cup {Loc(config.mapSize, 0)}

GrowingField(watered, matureTick) ==
    [id |-> <<"crop", 0, 0, 0>>, location |-> Loc(0, 0), plantedTick |-> 0,
     watered |-> watered, matureTick |-> matureTick, harvested |-> FALSE]

\* two adults beside the grass tile, which may carry a field planted at tick 0
CropWorlds ==
    LET bare == WorldOf(<<CreateAgent(1, "male", "adult", 10, 0, 0, 1),
                          CreateAgent(2, "male", "adult", 10, 1, 0, 1)>>, 0)
    IN {[w EXCEPT !.weather = weather] :
           weather \in {"sun", "rain"},
           w \in {bare} \cup
                 {[bare EXCEPT !.map[<<0, 0>>].cropField = <<GrowingField(watered, m)>>] :
                      watered \in 0..config.cropWateringRequired,
                      m \in 1..MaxMatureTick}}

InitCrops ==
    /\ world \in CropWorlds
    /\ eventLog = <<>>
    /\ worldSnapshots = <<>>
    /\ seed = 0
    /\ llmClient = FALSE
    /\ ticks = <<>>
    /\ logged = <<>>
    /\ twin = <<>>
    /\ attempts = <<>>
    /\ observer = <<>>
    /\ api = <<>>

CropCreate ==
    /\ \E id \in AgentIds(world), loc \in CropTargets :
          world' = HandleCreateCropField(world, CreateCropFieldCall(id, loc),
                                         world.time, config.cropGrowthTime)
    /\ UNCHANGED <<eventLog, worldSnapshots, seed, llmClient, ticks, logged, twin, attempts, observer, api>>

CropHarvest ==
    /\ \E id \in AgentIds(world), loc \in CropTargets :
          world' = HandleHarvestCrop(world, HarvestCropCall(id, loc),
                                     world.time, config.cropWateringRequired)
    /\ UNCHANGED <<eventLog, worldSnapshots, seed, llmClient, ticks, logged, twin, attempts, observer, api>>

CropTickEnd ==
    /\ world.time < MaxCropTime
    /\ \E toggles \in BOOLEAN : Commit(TickEnd(SimState, toggles))
    /\ UNCHANGED <<llmClient, ticks, twin, attempts, observer, api>>

NextCrops == CropCreate \/ CropHarvest \/ CropTickEnd

SpecCrops == InitCrops /\ [][NextCrops]_vars

\* the food of the agent of that id
FoodOf(w, id) == FindAgent(w.agents, id)[1].inventory.food

\* the tile at loc carries a field that harvest_crop accepts at tick t
Harvestable(w, loc, t) ==
    /\ TileAt(w, loc) # <<>>
    /\ TileAt(w, loc)[1].cropField # <<>>
    /\ ~TileAt(w, loc)[1].cropField[1].harvested
    /\ t >= TileAt(w, loc)[1].cropField[1].matureTick
    /\ TileAt(w, loc)[1].cropField[1].watered >= config.cropWateringRequired

\* the tiles whose field is marked harvested
HarvestedTiles(w) ==
    {c \in DOMAIN w.map : w.map[c].cropField # <<>> /\ w.map[c].cropField[1].harvested}

\* C16: handleHarvestCrop at tick t marks the field harvested and adds 2 to
\* the food of the harvesting agent if and only if the tile carries an
\* unharvested field with t >= matureTick and watered >= cropWateringRequired;
\* otherwise no harvested flag and no agent's food changes.
C16_HarvestIffRipe ==
    \A id \in AgentIds(world), loc \in CropTargets :
        LET after == HandleHarvestCrop(world, HarvestCropCall(id, loc),
                                       world.time, config.cropWateringRequired)
        IN IF Harvestable(world, loc, world.time)
           THEN /\ TileAt(after, loc)[1].cropField[1].harvested
                /\ FoodOf(after, id) = FoodOf(world, id) + 2
           ELSE /\ HarvestedTiles(after) = HarvestedTiles(world)
                /\ \A other \in AgentIds(world) :
                      FoodOf(after, other) = FoodOf(world, other)

\* a ripe, watered field has been harvested: it is marked and an agent holds
\* the two food
C16_Witness ==
    /\ HarvestedTiles(world) = {<<0, 0>>}
    /\ world.map[<<0, 0>>].cropField[1].matureTick <= world.time
    /\ \E id \in AgentIds(world) : FoodOf(world, id) = 2

\* C17: once a field has been harvested, create_crop_field on that grass
\* tile succeeds: the tile then carries a new field with harvested = false,
\* watered = 0 and matureTick = tick + cropGrowthTime.
C17_ReplantAfterHarvest ==
    \A id \in AgentIds(world), c \in HarvestedTiles(world) :
        LET after == HandleCreateCropField(world, CreateCropFieldCall(id, Loc(c[1], c[2])),
                                           world.time, config.cropGrowthTime)
            field == after.map[c].cropField[1]
        IN world.map[c].terrain = "grass" =>
              /\ ~field.harvested
              /\ field.watered = 0
              /\ field.matureTick = world.time + config.cropGrowthTime

\* the step is the end of a tick: updateWeather, then time++
WeatherStep == world'.time = world.time + 1

\* the weather_change events among the new events
WeatherEvents ==
    {k \in (Len(eventLog) + 1)..Len(eventLog') : eventLog'[k].type = "weather_change"}

\* C18: when updateWeather toggles the weather to rain, watered of every
\* unharvested field grows by exactly 1 and harvested fields are unchanged;
\* when it toggles to sun or does not toggle, no watered changes; every
\* toggle logs exactly one weather_change event.
C18_RainWatersFields ==
    [][WeatherStep =>
        /\ \A c \in DOMAIN world.map :
              LET before == world.map[c].cropField
                  after == world'.map[c].cropField
              IN before # <<>> =>
                    /\ after # <<>>
                    /\ IF world'.weather # world.weather /\ world'.weather = "rain"
                       THEN IF before[1].harvested
                            THEN after = before
                            ELSE after[1].watered = before[1].watered + 1
                       ELSE after[1].watered = before[1].watered
        /\ world'.weather # world.weather =>
              /\ Cardinality(WeatherEvents) = 1
              /\ \A k \in WeatherEvents : eventLog'[k].details.weather = world'.weather]_vars

\* the weather has turned to rain over a harvested field and has been logged
C18_Witness ==
    /\ world.weather = "rain"
    /\ HarvestedTiles(world) # {}
    /\ eventLog # <<>>
    /\ Last(eventLog).type = "weather_change"
    /\ Last(eventLog).details.weather = "rain"
    /\ Last(eventLog).tick = world.time - 1

----------------------------------------------------------------------------
(* The retry loop of processSingleAgentWithLLM followed query by query:     *)
(* two men, ticks one at a time, a service that answers each query with     *)
(* nothing or with a move.  attempts[id] is the local variable attempts of  *)
(* the turn of agent id; a waiting agent not in its domain has made its     *)
(* first query.                                                             *)

MaxSeedRetry == 4      \* no new tick of this scenario once this many draws are taken

Attempts(id) == IF id \in DOMAIN attempts THEN attempts[id] ELSE 1

\* the loop condition, for an empty response: attempts < maxAttempts
RetriesOnceMore(n) == n <= MaxAttempts

Retries(n) == n < MaxAttempts

\* attempts without the entry of the agent whose turn has ended
Forget(id) == [i \in DOMAIN attempts \ {id} |-> attempts[i]]

RetryCalls(agent) == {MoveCall(agent.id, Loc(1, 0))}

InitRetry ==
    /\ world = PairWorld
    /\ eventLog = <<>>
    /\ worldSnapshots = <<>>
    /\ seed = 0
    /\ llmClient = TRUE
    /\ ticks = <<>>
    /\ logged = <<>>
    /\ twin = <<>>
    /\ attempts = <<>>
    /\ observer = <<>>
    /\ api = <<>>

RetryTickStart == TickEnters(MaxSeedRetry, 1)

\* an empty response inside the loop: the service is queried again
LLMEmpty ==
    \E <<t, k>> \in Waiting :
        LET id == ticks[t].order[k].id
        IN /\ Retries(Attempts(id))
           /\ attempts' = [i \in DOMAIN attempts \cup {id} |->
                              IF i = id THEN Attempts(id) + 1 ELSE attempts[i]]
           /\ UNCHANGED <<world, eventLog, worldSnapshots, seed, llmClient, ticks,
                          logged, twin, observer, api>>

\* an empty response that ends the loop
LLMGivesUp ==
    \E <<t, k>> \in Waiting :
        LET id == ticks[t].order[k].id
        IN /\ ~Retries(Attempts(id))
           /\ \E toggles \in BOOLEAN : GiveUp(t, k, Attempts(id), toggles)
           /\ attempts' = Forget(id)

\* a response with a tool call, to whichever query of the turn
RetryDecides ==
    \E <<t, k>> \in Waiting :
        \E call \in RetryCalls(ticks[t].order[k]) :
            \E nonce \in ToolNonces(world, call, OneNonce) :
                \E toggles \in BOOLEAN :
                    /\ Executes(t, k, call, nonce, toggles)
                    /\ attempts' = Forget(ticks[t].order[k].id)

NextRetry == RetryTickStart \/ LLMEmpty \/ LLMGivesUp \/ RetryDecides

SpecRetry == InitRetry /\ [][NextRetry]_vars

\* the llm_error events of tick t that name the agent
GaveUpEvents(log, id, t) ==
    {k \in 1..Len(log) :
        /\ log[k].type = "llm_error"
        /\ log[k].tick = t
        /\ log[k].agentsInvolved = <<id>>
        /\ log[k].details.error = "no_tool_calls_after_retry"}

FallbackEventTypes == {"communicate", "create_crop_field", "harvest_crop", "move"}

\* C21: with a decision service that never answers with a tool call, every
\* living agent still performs a fallback action (communicate, plant or
\* harvest, move) in every tick: the turn of an agent that ends without a
\* tool call logs such an action of that agent.
C21_UnreachableFallsBack ==
    [][\A id \in AgentIds(world) :
          (/\ LLMGivesUp
           /\ id \in DOMAIN attempts /\ id \notin DOMAIN attempts') =>
              \E e \in NewEvents :
                  /\ e.type \in FallbackEventTypes
                  /\ e.agentsInvolved # <<>>
                  /\ e.agentsInvolved[1] = id]_vars

----------------------------------------------------------------------------
(* The fallback heuristic among three agents, with no decision service:     *)
(* every agent sees both others, one on its own tile and one a tile away.   *)

MaxSeedCrowd == 10      \* no new tick of this scenario once this many draws are taken

InitCrowd ==
    /\ world = CrowdWorld
    /\ eventLog = <<>>
    /\ worldSnapshots = <<>>
    /\ seed = 0
    /\ llmClient = FALSE
    /\ ticks = <<>>
    /\ logged = <<>>
    /\ twin = <<>>
    /\ attempts = <<>>
    /\ observer = <<>>
    /\ api = <<>>

CrowdTick ==
    /\ ~llmClient
    /\ seed < MaxSeedCrowd
    /\ \E r \in TickFallback(SimState, OneNonce) : Commit(r)
    /\ UNCHANGED <<llmClient, ticks, twin, attempts, observer, api>>

NextCrowd == CrowdTick

SpecCrowd == InitCrowd /\ [][NextCrowd]_vars

\* the living agents other than the agent that it sees
Seen(w, agent) ==
    {i \in 1..Len(w.agents) :
        /\ w.agents[i].id # agent.id
        /\ w.agents[i].alive
        /\ InSquare(w.agents[i], agent, agent.visibilityRadius)}

\* C26: in the fallback heuristic an agent that sees other living agents
\* communicates with the nearest of them.  (Checked on the ticks in which
\* nobody moves, where every agent acts from the place it started at.)
C26_TalksToNearest ==
    [][(TickStep /\ \A e \in NewEvents : e.type # "move") =>
        \A e \in NewEvents :
            e.type = "communicate" =>
                LET me == FindAgent(world.agents, e.agentsInvolved[1])[1]
                    you == FindAgent(world.agents, e.agentsInvolved[2])[1]
                IN \A i \in Seen(world, me) :
                      Manhattan(you.location, me.location)
                          <= Manhattan(world.agents[i].location, me.location)]_vars

\* an agent id that no agent of the world carries
Stranger == <<"agent", 0>>

\* what each resolver returns for a call in the name of the stranger
StrangerResults(w) ==
    {HandleMove(w, MoveCall(Stranger, loc)) : loc \in CropTargets}
    \cup {HandleCommunicate(w, [CommunicateCall(Stranger, <<>>)
                                   EXCEPT !.recipients = AgentIds(w)], <<>>)}
    \cup {HandleGather(w, GatherCall(Stranger, r, Loc(c[1], c[2]))) :
             r \in {"wood", "stone"}, c \in Coords}
    \cup {HandleCraft(w, CraftCall(Stranger, "wooden_tool"))}
    \cup {HandleBuild(w, BuildCall(Stranger, "fence", Loc(c[1], c[2])), <<>>) :
             c \in Coords}
    \cup {HandleCreateCropField(w, CreateCropFieldCall(Stranger, loc), w.time,
                                config.cropGrowthTime) : loc \in CropTargets}
    \cup {HandleHarvestCrop(w, HarvestCropCall(Stranger, loc), w.time,
                            config.cropWateringRequired) : loc \in CropTargets}
    \cup {HandleGiveResource(w, GiveResourceCall(Stranger, id, "wood", 0)) :
             id \in AgentIds(w)}

\* C29: every action resolver leaves the world without any change when the
\* acting agent id it is given is not in world.agents.
C29_StrangerChangesNothing ==
    Stranger \notin AgentIds(world) => StrangerResults(world) = {world}

\* the value of the agent's relationship toward the other agent, 0 if none
RelValue(agent, otherId) ==
    LET prev == FindRelationship(agent.relationships, otherId)
    IN IF prev = <<>> THEN 0 ELSE prev[1].value

\* C30: after a successful give_resource each party's relationship value
\* toward the other has grown by 3 and each party's happiness by 3, capped
\* at 100; no other agent's relationships or happiness change.
C30_GiftWarmsBoth ==
    \A i, j \in 1..Len(world.agents), n \in GiveAmounts :
        LET giver == world.agents[i]
            taker == world.agents[j]
            after == HandleGiveResource(world,
                         GiveResourceCall(giver.id, taker.id, "wood", n))
        IN (i # j /\ n > 0 /\ giver.inventory.wood >= n) =>
              /\ RelValue(after.agents[i], taker.id) = RelValue(giver, taker.id) + 3
              /\ RelValue(after.agents[j], giver.id) = RelValue(taker, giver.id) + 3
              /\ after.agents[i].happiness = Min(100, giver.happiness + 3)
              /\ after.agents[j].happiness = Min(100, taker.happiness + 3)
              /\ \A k \in 1..Len(world.agents) \ {i, j} :
                    /\ after.agents[k].relationships = world.agents[k].relationships
                    /\ after.agents[k].happiness = world.agents[k].happiness

----------------------------------------------------------------------------
(* Spatial memory: observeTiles and the functions under it, applied to one  *)
(* agent whose memory starts empty.  The tiles it is shown lie on one row,  *)
(* at distances 1, 8 and 9 of each other.                                   *)

MaxObserveTime == 2    \* no observation once world.time has this value
MaxShown == 2          \* at most this many tiles are shown in one call

DedupRadius == 8
NotableAbove == 1
SpatialMemoryLimit == 10

MemTile(x, wood, stone) ==
    [x |-> x, y |-> 0,
     resources |-> [ZeroInventory EXCEPT !.wood = wood, !.stone = stone],
     cropField |-> <<>>, structure |-> <<>>]

\* the tiles an observation may show
TilePool ==
    {MemTile(x, r[1], r[2]) : x \in {0, 1, 9}, r \in {<<2, 0>>, <<0, 3>>, <<1, 0>>}}

RECURSIVE TileSeqs(_)
\* the sequences of at most n tiles at different places
TileSeqs(n) ==
    IF n = 0 THEN {<<>>}
    ELSE LET shorter == TileSeqs(n - 1)
             longer == {Append(q, t) : q \in shorter, t \in TilePool}
         IN shorter \cup
            {q \in longer : \A i, j \in 1..Len(q) : i # j => q[i].x # q[j].x}

ResourceTypes == {"resource_wood", "resource_stone", "resource_water", "resource_food"}

\* memory.type.split('_')[0]
Category(type) ==
    IF type \in ResourceTypes THEN "resource"
    ELSE IF type = "crop_field" THEN "crop" ELSE "structure"

IsNotableResourceTile(tile, agent, existingMemories) ==
    LET hasWood == tile.resources.wood > NotableAbove
        hasStone == tile.resources.stone > NotableAbove
        hasWater == tile.resources.water > NotableAbove
        hasFood == tile.resources.food > NotableAbove
    IN IF ~hasWood /\ ~hasStone /\ ~hasWater /\ ~hasFood THEN FALSE
       ELSE ~\E k \in 1..Len(existingMemories) :
               LET memory == existingMemories[k]
               IN /\ \/ hasWood /\ memory.type = "resource_wood"
                     \/ hasStone /\ memory.type = "resource_stone"
                     \/ hasWater /\ memory.type = "resource_water"
                     \/ hasFood /\ memory.type = "resource_food"
                  /\ Abs(memory.location.x - tile.x) + Abs(memory.location.y - tile.y)
                        <= DedupRadius

DetermineLocationImportance(type, agent) ==
    LET inv == agent.inventory
    IN IF type = "resource_water" /\ inv.water < 2 THEN "critical"
       ELSE IF type = "resource_food" /\ inv.food < 2 THEN "critical"
       ELSE IF type = "resource_food" /\ agent.starving THEN "critical"
       ELSE IF type = "resource_water" /\ inv.water < 5 THEN "high"
       ELSE IF type = "resource_food" /\ inv.food < 5 THEN "high"
       ELSE IF type = "structure_shelter" THEN "high"
       ELSE IF type \in {"crop_field", "structure_workbench", "structure_storage"}
       THEN "medium"
       ELSE "low"

\* the memory of a tile as an optional value; nonce is the Math.random() text of its id
CreateSpatialMemoryFromTile(tile, currentTick, agent, nonce) ==
    LET res == tile.resources
        found ==
            IF IsNotableResourceTile(tile, agent, agent.spatialMemory)
            THEN IF res.wood > 1 THEN <<"resource_wood", <<"Forest", res.wood>>>>
                 ELSE IF res.stone > 1 THEN <<"resource_stone", <<"Rocky area", res.stone>>>>
                 ELSE IF res.water > 1 THEN <<"resource_water", <<"Water source", res.water>>>>
                 ELSE IF res.food > 1 THEN <<"resource_food", <<"Food source", res.food>>>>
                 ELSE <<>>
            ELSE <<>>
        typed ==
            IF found # <<>> THEN found
            ELSE IF tile.cropField # <<>>
            THEN <<"crop_field", <<"Crop field", tile.cropField[1].plantedTick>>>>
            ELSE IF tile.structure # <<>>
            THEN <<"structure_fence", <<"fence", tile.structure[1].builtBy>>>>
            ELSE <<>>
    IN IF typed = <<>> THEN <<>>
       ELSE <<[id |-> <<"spatial", nonce>>,
               location |-> Loc(tile.x, tile.y),
               type |-> typed[1],
               importance |-> DetermineLocationImportance(typed[1], agent),
               lastSeenTick |-> currentTick,
               firstSeenTick |-> currentTick,
               description |-> typed[2]]>>

AddOrUpdateSpatialMemory(agent, memory) ==
    LET at == {k \in 1..Len(agent.spatialMemory) :
                  agent.spatialMemory[k].location = memory.location}
        existingIndex == IF at = {} THEN 0 ELSE CHOOSE k \in at : \A j \in at : k <= j
    IN IF existingIndex > 0
       THEN [agent EXCEPT !.spatialMemory[existingIndex] =
                [@ EXCEPT !.lastSeenTick = memory.lastSeenTick,
                          !.description = memory.description]]
       ELSE [agent EXCEPT !.spatialMemory = Append(@, memory)]

ImportanceOrder(importance) ==
    IF importance = "critical" THEN 0
    ELSE IF importance = "high" THEN 1
    ELSE IF importance = "medium" THEN 2 ELSE 3

\* the comparator of the sort: a before b
SortsBefore(a, b) ==
    IF ImportanceOrder(a.importance) # ImportanceOrder(b.importance)
    THEN ImportanceOrder(a.importance) < ImportanceOrder(b.importance)
    ELSE b.lastSeenTick < a.lastSeenTick

RECURSIVE SortMemories(_)
\* Array.prototype.sort with that comparator (stable)
SortMemories(memories) ==
    IF memories = <<>> THEN <<>>
    ELSE LET rest == SortMemories(SubSeq(memories, 1, Len(memories) - 1))
             m == Last(memories)
             after == {k \in 1..Len(rest) : SortsBefore(m, rest[k])}
             pos == IF after = {} THEN Len(rest) + 1
                    ELSE CHOOSE k \in after : \A j \in after : k <= j
         IN SubSeq(rest, 1, pos - 1) \o <<m>> \o SubSeq(rest, pos, Len(rest))

RECURSIVE CategoriesInOrder(_)
\* the keys of memoriesByCategory in insertion order
CategoriesInOrder(memories) ==
    IF memories = <<>> THEN <<>>
    ELSE LET before == CategoriesInOrder(SubSeq(memories, 1, Len(memories) - 1))
             c == Category(Last(memories).type)
         IN IF c \in Range(before) THEN before ELSE Append(before, c)

RECURSIVE KeepTop(_, _, _)
KeepTop(memories, categories, limitPerCategory) ==
    IF categories = <<>> THEN <<>>
    ELSE LET sorted == SortMemories(SelectSeq(memories,
                           LAMBDA m : Category(m.type) = Head(categories)))
         IN SubSeq(sorted, 1, Min(Len(sorted), limitPerCategory))
            \o KeepTop(memories, Tail(categories), limitPerCategory)

PruneSpatialMemoryByCategory(agent, limitPerCategory) ==
    [agent EXCEPT !.spatialMemory =
        KeepTop(@, CategoriesInOrder(@), limitPerCategory)]

RECURSIVE ObserveLoop(_, _, _, _, _)
\* for (const tile of visibleTiles): the memory of each tile is created from
\* agent, the argument of observeTiles, and added to updatedAgent
ObserveLoop(agent, updatedAgent, visibleTiles, currentTick, nonce) ==
    IF visibleTiles = <<>> THEN updatedAgent
    ELSE LET memory == CreateSpatialMemoryFromTile(Head(visibleTiles), currentTick,
                                                  agent, nonce)
         IN ObserveLoop(agent,
                        IF memory # <<>>
                        THEN AddOrUpdateSpatialMemory(updatedAgent, memory[1])
                        ELSE updatedAgent,
                        Tail(visibleTiles), currentTick, nonce)

ObserveTiles(agent, visibleTiles, currentTick, spatialMemoryLimit, nonce) ==
    PruneSpatialMemoryByCategory(
        ObserveLoop(agent, agent, visibleTiles, currentTick, nonce), spatialMemoryLimit)

InitMemory ==
    /\ world = WorldOf(<<>>, 0)
    /\ eventLog = <<>>
    /\ worldSnapshots = <<>>
    /\ seed = 0
    /\ llmClient = FALSE
    /\ ticks = <<>>
    /\ logged = <<>>
    /\ twin = <<>>
    /\ attempts = <<>>
    /\ observer = [inventory |-> ZeroInventory, starving |-> FALSE, spatialMemory |-> <<>>]
    /\ api = <<>>

\* the agent looks around once in a tick
Observe ==
    /\ world.time < MaxObserveTime
    /\ \E visibleTiles \in TileSeqs(MaxShown) :
          observer' = ObserveTiles(observer, visibleTiles, world.time,
                                   SpatialMemoryLimit, 1)
    /\ world' = [world EXCEPT !.time = @ + 1]
    /\ UNCHANGED <<eventLog, worldSnapshots, seed, llmClient, ticks, logged, twin,
                   attempts, api>>

NextMemory == Observe

SpecMemory == InitMemory /\ [][NextMemory]_vars

\* two resource memories of one kind lie within the deduplication radius
ClosePair(memories) ==
    \E i, j \in 1..Len(memories) :
        /\ i # j
        /\ memories[i].type \in ResourceTypes
        /\ memories[i].type = memories[j].type
        /\ Manhattan(memories[i].location, memories[j].location) <= DedupRadius

\* C31: after observeTiles on any set of visible tiles the spatial memory of
\* an agent holds no two resource memories of the same kind within Manhattan
\* distance 8 of each other, given that it held no such pair before the call.
C31_NoNearbyDuplicates ==
    [][~ClosePair(observer.spatialMemory) => ~ClosePair(observer'.spatialMemory)]_vars

----------------------------------------------------------------------------
(* The tools offered to an agent and the decisions the service returns *)
\* ticks of the scenario of the offered tools
MaxSeedOffer == 3

\* getToolSchemas(agentStatus): the names of the tools in the schema
GetToolSchemas(agentStatus) ==
    IF agentStatus = "child" THEN {"move", "communicate"}
    ELSE {"move", "communicate", "heal", "gather", "craft", "build",
          "create_crop_field", "harvest_crop", "give_resource"}

\* a heal call; the target is carried in toAgentId
HealCall(agentId, targetAgentId, amount) ==
    [ToolCall("heal", {"agentId", "targetAgentId", "amount"}, agentId)
        EXCEPT !.toAgentId = targetAgentId, !.amount = amount]

\* where the service may send an agent: tiles of the island and places beside it
MoveTargets == {Loc(1, 0), Loc(1, 1), Loc(-1, 0), Loc(2, 0)}

\* what the service may answer when asked for agent: a call of an offered
\* tool, its agentId being whatever the service wrote into the arguments
OfferedCalls(agent) ==
    {call \in {MoveCall(id, to) : id \in AgentIds(PairWorld), to \in MoveTargets}
              \cup {HealCall(agent.id, agent.id, 1)} :
        call.name \in GetToolSchemas(agent.status)}

InitOffer ==
    /\ world = PairWorld
    /\ eventLog = <<>>
    /\ worldSnapshots = <<>>
    /\ seed = 0
    /\ llmClient = TRUE
    /\ ticks = <<>>
    /\ logged = <<>>
    /\ twin = <<>>
    /\ attempts = <<>>
    /\ observer = <<>>
    /\ api = <<>>

OfferTickStart == TickEnters(MaxSeedOffer, 1)

OfferDecides == Decides(OfferedCalls)

NextOffer == OfferTickStart \/ OfferDecides

SpecOffer == InitOffer /\ [][NextOffer]_vars

\* processSingleAgentWithLLM(order[k]) of the tick in progress returns in this step
Returns(k) ==
    /\ Len(ticks) = 1
    /\ k \in 1..Len(ticks[1].order)
    /\ ticks[1].slots[k] = "waiting"
    /\ \/ ticks' = <<>>
       \/ Len(ticks') = 1 /\ ticks'[1].slots[k] # "waiting"

\* C32: with a decision service, the action applied for the decision of an
\* agent has that agent as its acting agent: a decision requested for A
\* never moves another agent B, so the event of the action names A first.
C32_DecisionActsForItsAgent ==
    [][\A k \in 1..Len(world.agents) :
          Returns(k) =>
             \A e \in NewEvents :
                 e.type \in ActionEventTypes =>
                     e.agentsInvolved[1] = ticks[1].order[k].id]_vars

\* C35: after any tick the location of every agent lies within the bounds
\* of the map, all of them having started within: a move whose target is
\* outside the map is never applied.
C35_AgentsStayOnMap ==
    ticks = <<>> =>
        \A i \in 1..Len(world.agents) :
            <<world.agents[i].location.x, world.agents[i].location.y>> \in Coords

\* C40: every action name in the schema getToolSchemas offers for the status
\* of an agent is handled by executeToolCall: a decision naming an offered
\* action is never rejected with the llm_error unknown_tool.
C40_OfferedToolsAreHandled ==
    \A i \in 1..Len(eventLog) :
        ~(/\ eventLog[i].type = "llm_error"
          /\ eventLog[i].details.error = "unknown_tool"
          /\ eventLog[i].details.toolName \in
                 UNION {GetToolSchemas(st) : st \in {"child", "adult", "elder"}})

----------------------------------------------------------------------------
(* A day of meals: the ticks 24 .. 47 of a man alone on the grass *)
\* the last tick of the scenario is MaxDayTime - 1
MaxDayTime == 48
\* the food the man may hold as the day begins
MaxFood == 3

\* the world as tick 23 left it: the man ate during the first day, for the
\* last time at tick 23
DayWorlds ==
    {WorldOf(<<[CreateAgent(1, "male", "adult", 10, 0, 0, 0) EXCEPT
                  !.inventory.food = food, !.mealsEaten = meals, !.lastMealTick = 23]>>,
             24) : food \in 0..MaxFood, meals \in 1..2}

\* twin counts the meals the man has eaten since the day began
InitDay ==
    /\ world \in DayWorlds
    /\ eventLog = <<>>
    /\ worldSnapshots = <<>>
    /\ seed = 0
    /\ llmClient = FALSE
    /\ ticks = <<>>
    /\ logged = <<>>
    /\ twin = 0
    /\ attempts = <<>>
    /\ observer = <<>>
    /\ api = <<>>

\* the agent eats in the tick that starts in this state
Eats(a, time) == a.inventory.food > 0 /\ a.lastMealTick # time

\* the ticks of tick() without a decision service in which randomBoolean(0.1)
\* of updateWeather comes out false
TickFallbackDry(s, nonces) ==
    UNION {UNION {
        {TickEnd(done, FALSE) :
            done \in ProcessAgentsWithFallback(
                        DrawN(alive, ShuffleDraws(Len(alive.world.agents))), order, nonces)} :
            order \in ActionOrders(alive)} :
            alive \in TickLifecycle(s)}

DayTick ==
    /\ ~llmClient
    /\ world.time < MaxDayTime
    /\ \E r \in TickFallbackDry(SimState, OneNonce) : Commit(r)
    /\ twin' = (IF world.time % 24 = 0 THEN 0 ELSE twin)
               + (IF Eats(world.agents[1], world.time) THEN 1 ELSE 0)
    /\ UNCHANGED <<llmClient, ticks, attempts, observer, api>>

NextDay == DayTick

SpecDay == InitDay /\ [][NextDay]_vars

\* C33: at each end-of-day starvation check mealsEaten equals the number of
\* meals consumed during that day of 24 ticks (ticks 24d .. 24d + 23), so an
\* agent that consumes at least mealsPerDay food within a day is not marked
\* starving at the end of that day.
C33_MealsOfTheDayCounted ==
    [][(DayTick /\ world.time % 24 = 23) =>
          /\ MealsAtCheck(world.agents[1], world.time) = twin'
          /\ twin' >= config.mealsPerDay => ~world'.agents[1].starving]_vars

----------------------------------------------------------------------------
(* The routes: POST god-message, and the tick route with its singleton *)
\* draws of the singleton's generator in the scenario
MaxSeedApi == 4
\* god messages posted in the scenario
MaxGodMessages == 2

\* api.world and api.eventLog are server/world.json and server/eventlog.json;
\* api.clock counts the ids the god-message route has made from Date.now();
\* api.loaded says that the variable simulation of the tick route is set, and
\* the simulation is then world, eventLog, worldSnapshots and seed;
\* api.livePaused is its livePaused.  config.json configures no decision
\* service, so tick() runs to completion within the request.
InitApi ==
    /\ world = DuskWorld
    /\ eventLog = <<>>
    /\ worldSnapshots = <<>>
    /\ seed = 0
    /\ llmClient = FALSE
    /\ ticks = <<>>
    /\ logged = <<>>
    /\ twin = <<>>
    /\ attempts = <<>>
    /\ observer = <<>>
    /\ api = [world |-> JsonCopy(DuskWorld), eventLog |-> <<>>, clock |-> 0,
              loaded |-> FALSE, livePaused |-> TRUE]

\* getSimulation(): the singleton, made from the files when it is not yet set
GetSimulation ==
    IF api.loaded THEN SimState
    ELSE [world |-> api.world, eventLog |-> api.eventLog, worldSnapshots |-> <<>>,
          seed |-> 0, logged |-> <<>>]

\* sim.isLivePaused(); a simulation just constructed is paused
IsLivePaused == IF api.loaded THEN api.livePaused ELSE TRUE

\* saveSimulationState(sim)
SaveSimulationState(a, s) ==
    [a EXCEPT !.world = JsonCopy(s.world), !.eventLog = s.eventLog]

\* GET of the tick route and POST with action status
ApiStatus ==
    /\ ~api.loaded
    /\ Commit(GetSimulation)
    /\ api' = [api EXCEPT !.loaded = TRUE, !.livePaused = IsLivePaused]
    /\ UNCHANGED <<llmClient, ticks, twin, attempts, observer>>

\* POST of the tick route with action pause or resume
ApiPauseResume ==
    \E paused \in BOOLEAN :
        /\ Commit(GetSimulation)
        /\ api' = [api EXCEPT !.loaded = TRUE, !.livePaused = paused]
        /\ UNCHANGED <<llmClient, ticks, twin, attempts, observer>>

\* POST of the tick route with action generate
ApiGenerate ==
    /\ GetSimulation.seed < MaxSeedApi
    /\ IF IsLivePaused
       THEN /\ Commit(GetSimulation)
            /\ api' = [api EXCEPT !.loaded = TRUE, !.livePaused = TRUE]
       ELSE \E r \in TickFallback(GetSimulation, OneNonce) :
               /\ Commit(r)
               /\ api' = SaveSimulationState([api EXCEPT !.loaded = TRUE], r)
    /\ UNCHANGED <<llmClient, ticks, twin, attempts, observer>>

RECURSIVE RouteMemories(_, _, _, _)
\* for (const agent of recipients) agent.memory.push(...) on the parsed world
RouteMemories(w, i, recipients, stamp) ==
    IF i > Len(w.agents) THEN w
    ELSE IF w.agents[i].id \in recipients
    THEN RouteMemories([w EXCEPT !.agents[i].memory =
                           Append(@, MemoryEntry(w.time, <<"godmsg", stamp, 0>>,
                                                 <<"GOD", NoId>>))],
                       i + 1, recipients, stamp)
    ELSE RouteMemories(w, i + 1, recipients, stamp)

\* POST of the god-message route: both files read, changed and written
PostGodMessage(a, targetAgentIds, stamp) ==
    LET recipients == RecipientIds(a.world, targetAgentIds)
        godEvent == [NewEvent(<<"event", stamp, 0>>, "god_message", a.world.time,
                              RecipientSeq(a.world, recipients), [message |-> "msg"])
                        EXCEPT !.parentEventId =
                            IF Len(a.eventLog) > 0 THEN Last(a.eventLog).id ELSE NoId]
    IN [a EXCEPT !.world = RouteMemories(a.world, 1, recipients, stamp),
                 !.eventLog = Append(@, godEvent),
                 !.clock = stamp]

ApiGodMessage ==
    /\ api.clock < MaxGodMessages
    /\ \E targets \in GodTargets : api' = PostGodMessage(api, targets, api.clock + 1)
    /\ UNCHANGED <<world, eventLog, worldSnapshots, seed, llmClient, ticks, logged,
                   twin, attempts, observer>>

NextApi == ApiStatus \/ ApiPauseResume \/ ApiGenerate \/ ApiGodMessage

SpecApi == InitApi /\ [][NextApi]_vars

\* the god message logged at position k of the persisted log is in the
\* persisted log after the step too, and so are the memory entries in the
\* persisted world for the agents that are still there
GodMessageKept(k) ==
    /\ \E j \in 1..Len(api'.eventLog) : api'.eventLog[j] = api.eventLog[k]
    /\ \A i \in 1..Len(api.world.agents) :
          \A m \in Range(api.world.agents[i].memory) :
              LET after == FindAgent(api'.world.agents, api.world.agents[i].id)
              IN (m.eventId = <<"godmsg", api.eventLog[k].id[2], 0>> /\ after # <<>>) =>
                     m \in Range(after[1].memory)

\* C39: a god message accepted by the god-message route (event appended to
\* the persisted log, memory entries written to the persisted world) is
\* still in the persisted log and world after any later tick that the
\* simulation of the tick route generates and saves.
C39_GodMessageSurvivesTicks ==
    [][\A k \in 1..Len(api.eventLog) :
          api.eventLog[k].type = "god_message" => GodMessageKept(k)]_vars

====
